---- MODULE Spec2Model ----
(***************************************************************************)
(* Model of the tabular-data engine of csv-ai-analyzer:                    *)
(*   src/src/lib/csv-parser.ts       detectDelimiter, inferColumnType,     *)
(*                                   parseCSV                              *)
(*   src/src/app/_components/ChartDisplay.tsx   processChartData           *)
(*                                                                         *)
(* A JavaScript string is a sequence of one-character strings.  A number   *)
(* is a record [nan, v]: v counts hundredths, so that the two-decimal      *)
(* rounding of the aggregation is exact integer arithmetic.                *)
(***************************************************************************)
EXTENDS Integers, Sequences, FiniteSets, TLC

VARIABLES
    pc,             \* which entry point has run: "idle" before any call
    data,           \* processChartData: the CSVData argument
    chart,          \* processChartData: the ChartSuggestion argument
    sortOrder,      \* processChartData: the sortOrder argument
    limit,          \* processChartData: the limit argument
    processedData,  \* processChartData: the returned ChartDataPoint[]
    content,        \* parseCSV: the text argument
    settings,       \* parseCSV: the CSVSettings argument
    allRows,        \* parseCSV: result.data, the rows Papa.parse returned
    parsed,         \* parseCSV: the returned CSVData
    values,         \* inferColumnType: the column values argument
    inferred,       \* inferColumnType: the returned type
    sample,         \* detectDelimiter: the sample argument
    detected,       \* detectDelimiter: the returned delimiter
    csvData,        \* HomePage state: <<>> for null, else <<the CSVData>>
    csvSettings,    \* HomePage state: the CSVSettings
    currentFileName,    \* HomePage state: <<>> for undefined, else <<name>>
    generatedCharts,    \* HomePage state: the ChartSuggestion[] displayed
    analysisResults,    \* HomePage state: summary, anomalies, charts
    showSampleDropdown, \* HomePage state
    apiSettings,        \* HomePage state: <<>> for null, else <<settings>>
    reading,        \* FileUpload: the FileReader reads in flight
    now,            \* Date.now(), counted in the calls that read it
    download,       \* the file handleExportCSV last handed to the browser
    isLoading,      \* ChartSuggestions state
    error,          \* ChartSuggestions state: <<>> for null, else <<text>>
    suggestions,    \* ChartSuggestions state: ChartSuggestion[]
    selectedCharts, \* ChartSuggestions state: the Set of chart ids
    request,        \* generateChartSuggestions calls awaited by handleGenerate
    received,       \* handleGenerate: the charts of the last answer awaited
    isAnalyzingAll, \* HomePage state
    analysis,       \* handleRunAllAnalysis: the run in flight, <<>> for none
    heap,           \* chat-store: the ChatStore objects alive, by reference
    store,          \* chat-store: the module variable store, a reference
    subscribers,    \* chat-store: the Set of callbacks, in insertion order
    microtasks,     \* chat-store: the notifications queued as microtasks
    seen,           \* the version each subscribed callback read when last called
    snapshot,       \* a caller of getChatStore: what it was returned
    call            \* chat-store: the last call of an exported function

vars == <<pc, data, chart, sortOrder, limit, processedData,
          content, settings, allRows, parsed, values, inferred,
          sample, detected,
          csvData, csvSettings, currentFileName, generatedCharts,
          analysisResults, showSampleDropdown, apiSettings, reading, now,
          download, isLoading, error, suggestions, selectedCharts, request,
          received, isAnalyzingAll, analysis,
          heap, store, subscribers, microtasks, seen, snapshot, call>>

chartVars == <<data, chart, sortOrder, limit, processedData>>
csvVars == <<content, settings, allRows, parsed>>
inferVars == <<values, inferred>>
delimVars == <<sample, detected>>
homeOther == <<csvSettings, currentFileName, generatedCharts,
               analysisResults, showSampleDropdown, apiSettings>>
homeVars == <<csvData, homeOther>>
suggestVars ==
    <<isLoading, error, suggestions, selectedCharts, request, received>>
analysisVars == <<isAnalyzingAll, analysis>>
storeVars == <<heap, store, subscribers, microtasks, seen, snapshot, call>>
pageVars ==
    <<homeVars, suggestVars, reading, now, download, analysisVars, storeVars>>

(***************************************************************************)
(* Bounds of the model.                                                    *)
(***************************************************************************)
MaxRows == 3       \* rows of a dataset handed to processChartData
MaxLimit == 2      \* largest limit handed to processChartData

(***************************************************************************)
(* Strings.                                                                *)
(***************************************************************************)
Min(a, b) == IF a < b THEN a ELSE b

\* The characters /\s/ and String.prototype.trim treat as white space.
IsSpace(c) == c \in {" ", "\t", "\n", "\r"}

IsDigit(c) == c \in {"0", "1", "2", "3", "4", "5", "6", "7", "8", "9"}

DigitVal(c) ==
    CASE c = "0" -> 0 [] c = "1" -> 1 [] c = "2" -> 2 [] c = "3" -> 3
      [] c = "4" -> 4 [] c = "5" -> 5 [] c = "6" -> 6 [] c = "7" -> 7
      [] c = "8" -> 8 [] c = "9" -> 9

\* String.prototype.toLowerCase on one character.
LowerChar(c) ==
    CASE c = "A" -> "a" [] c = "B" -> "b" [] c = "C" -> "c" [] c = "D" -> "d"
      [] c = "E" -> "e" [] c = "F" -> "f" [] c = "G" -> "g" [] c = "H" -> "h"
      [] c = "I" -> "i" [] c = "J" -> "j" [] c = "K" -> "k" [] c = "L" -> "l"
      [] c = "M" -> "m" [] c = "N" -> "n" [] c = "O" -> "o" [] c = "P" -> "p"
      [] c = "Q" -> "q" [] c = "R" -> "r" [] c = "S" -> "s" [] c = "T" -> "t"
      [] c = "U" -> "u" [] c = "V" -> "v" [] c = "W" -> "w" [] c = "X" -> "x"
      [] c = "Y" -> "y" [] c = "Z" -> "z"
      [] OTHER -> c

toLowerCase(s) == [i \in 1..Len(s) |-> LowerChar(s[i])]

RECURSIVE trimStart(_)
trimStart(s) ==
    IF s # <<>> /\ IsSpace(Head(s)) THEN trimStart(Tail(s)) ELSE s

RECURSIVE trimEnd(_)
trimEnd(s) ==
    IF s # <<>> /\ IsSpace(s[Len(s)])
    THEN trimEnd(SubSeq(s, 1, Len(s) - 1))
    ELSE s

trim(s) == trimEnd(trimStart(s))

\* Length of the longest prefix of s made of decimal digits.
RECURSIVE DigitRun(_)
DigitRun(s) ==
    IF s # <<>> /\ IsDigit(Head(s)) THEN 1 + DigitRun(Tail(s)) ELSE 0

\* The value of a sequence of decimal digits.
RECURSIVE DigitsValue(_)
DigitsValue(s) ==
    IF s = <<>> THEN 0
    ELSE 10 * DigitsValue(SubSeq(s, 1, Len(s) - 1)) + DigitVal(s[Len(s)])

(***************************************************************************)
(* Numbers.                                                                *)
(***************************************************************************)
NaN == [nan |-> TRUE, v |-> 0]
Num(h) == [nan |-> FALSE, v |-> h]
isNaN(x) == x.nan

\* The hundredths denoted by the fraction digits f (digits past the second
\* are below the resolution of the model).
FracHundredths(f) ==
    (IF Len(f) >= 1 THEN 10 * DigitVal(f[1]) ELSE 0)
    + (IF Len(f) >= 2 THEN DigitVal(f[2]) ELSE 0)

\* The global parseFloat: leading white space is skipped, then the longest
\* prefix that is a decimal literal (sign, digits, '.', digits) is
\* converted; NaN when that prefix holds no digit.
parseFloat(s) ==
    LET t == trimStart(s)
        signed == t # <<>> /\ Head(t) \in {"-", "+"}
        neg == t # <<>> /\ Head(t) = "-"
        u == IF signed THEN Tail(t) ELSE t
        ni == DigitRun(u)
        rest == SubSeq(u, ni + 1, Len(u))
        dot == rest # <<>> /\ Head(rest) = "."
        nf == IF dot THEN DigitRun(Tail(rest)) ELSE 0
        mag == 100 * DigitsValue(SubSeq(u, 1, ni))
               + (IF dot THEN FracHundredths(SubSeq(rest, 2, nf + 1)) ELSE 0)
    IN  IF ni = 0 /\ nf = 0 THEN NaN
        ELSE Num(IF neg THEN 0 - mag ELSE mag)

\* Number(s) (StringToNumber): surrounding white space is ignored, the empty
\* string is 0, and the whole rest must be one decimal literal; NaN
\* otherwise.
Number(s) ==
    LET t == trim(s)
        signed == t # <<>> /\ Head(t) \in {"-", "+"}
        u == IF signed THEN Tail(t) ELSE t
        ni == DigitRun(u)
        rest == SubSeq(u, ni + 1, Len(u))
        dot == rest # <<>> /\ Head(rest) = "."
        nf == IF dot THEN DigitRun(Tail(rest)) ELSE 0
        used == ni + (IF dot THEN 1 + nf ELSE 0)
    IN  IF t = <<>> THEN Num(0)
        ELSE IF ni + nf > 0 /\ used = Len(u) THEN parseFloat(t)
        ELSE NaN

isFinite(x) == ~x.nan

(***************************************************************************)
(* detectDelimiter (csv-parser.ts).                                        *)
(***************************************************************************)
SampleLength == 2000

delimiters == <<",", ";", "\t", "|">>

\* (sample.match(new RegExp(`\\${d}`, "g")) ?? []).length
CountOf(s, d) == Cardinality({i \in 1..Len(s) : s[i] = d})

counts(s) ==
    [i \in 1..Len(delimiters) |->
        [delimiter |-> delimiters[i], count |-> CountOf(s, delimiters[i])]]

\* counts.reduce((a, b) => (a.count > b.count ? a : b)) over the first n
\* elements.
RECURSIVE reduceBest(_, _)
reduceBest(cs, n) ==
    IF n = 1 THEN cs[1]
    ELSE LET a == reduceBest(cs, n - 1)
             b == cs[n]
         IN  IF a.count > b.count THEN a ELSE b

\* detectDelimiter without the comma default of its last line.
detectDelimiterNoDefault(s) ==
    LET cs == counts(s)
        best == reduceBest(cs, Len(cs))
    IN  best.delimiter

detectDelimiter(s) ==
    LET cs == counts(s)
        best == reduceBest(cs, Len(cs))
    IN  IF best.count > 0 THEN best.delimiter ELSE ","

\* String.prototype.slice(0, n)
slice(s, n) == SubSeq(s, 1, Min(n, Len(s)))

(***************************************************************************)
(* inferColumnType (csv-parser.ts).                                        *)
(***************************************************************************)
MaxSample == 100

booleanValues ==
    { <<"t", "r", "u", "e">>, <<"f", "a", "l", "s", "e">>,
      <<"y", "e", "s">>, <<"n", "o">>, <<"1">>, <<"0">>,
      <<"o", "u", "i">>, <<"n", "o", "n">> }

\* v.replace(/[\s,]/g, "")
stripSpacesAndCommas(v) == SelectSeq(v, LAMBDA c : ~IsSpace(c) /\ c # ",")

\* s.replace(",", "."): the first comma only.
RECURSIVE replaceFirstComma(_)
replaceFirstComma(s) ==
    IF s = <<>> THEN <<>>
    ELSE IF Head(s) = "," THEN <<".">> \o Tail(s)
    ELSE <<Head(s)>> \o replaceFirstComma(Tail(s))

cleanNumber(v) == replaceFirstComma(stripSpacesAndCommas(v))

isBoolValue(v) == trim(toLowerCase(v)) \in booleanValues

isNumberValue(v) ==
    LET cleaned == cleanNumber(v)
    IN  ~isNaN(parseFloat(cleaned)) /\ isFinite(Number(cleaned))

\* A date pattern is a sequence of "d" (one digit) and literal characters.
datePatterns ==
    << <<"d", "d", "d", "d", "-", "d", "d", "-", "d", "d">>,
       <<"d", "d", "/", "d", "d", "/", "d", "d", "d", "d">>,
       <<"d", "d", "-", "d", "d", "-", "d", "d", "d", "d">>,
       <<"d", "d", "d", "d", "/", "d", "d", "/", "d", "d">> >>

matchesPattern(s, p) ==
    /\ Len(s) = Len(p)
    /\ \A i \in 1..Len(p) : IF p[i] = "d" THEN IsDigit(s[i]) ELSE s[i] = p[i]

isDateValue(v) ==
    \E k \in 1..Len(datePatterns) : matchesPattern(trim(v), datePatterns[k])

\* values.slice(0, sampleSize).filter((v) => v.trim() !== "")
sampleOf(vs) ==
    SelectSeq(SubSeq(vs, 1, Min(Len(vs), MaxSample)),
              LAMBDA v : trim(v) # <<>>)

\* inferColumnType testing the number rule before the boolean rule.
inferColumnTypeNumberFirst(vs) ==
    LET smp == sampleOf(vs)
    IN  IF Len(smp) = 0 THEN "string"
        ELSE IF (\A i \in 1..Len(smp) : isNumberValue(smp[i])) THEN "number"
        ELSE IF (\A i \in 1..Len(smp) : isBoolValue(smp[i])) THEN "boolean"
        ELSE IF (\A i \in 1..Len(smp) : isDateValue(smp[i])) THEN "date"
        ELSE "string"

inferColumnType(vs) ==
    LET smp == sampleOf(vs)
    IN  IF Len(smp) = 0 THEN "string"
        ELSE IF (\A i \in 1..Len(smp) : isBoolValue(smp[i])) THEN "boolean"
        ELSE IF (\A i \in 1..Len(smp) : isNumberValue(smp[i])) THEN "number"
        ELSE IF (\A i \in 1..Len(smp) : isDateValue(smp[i])) THEN "date"
        ELSE "string"

(***************************************************************************)
(* Papa.parse(content, {delimiter, skipEmptyLines}).data, the row parser   *)
(* parseCSV calls (papaparse), for a text without carriage returns, whose  *)
(* line ending papaparse takes to be "\n".  A text without a quote         *)
(* character is split at "\n" and each line at the delimiter; any other    *)
(* text is scanned field by field.                                         *)
(***************************************************************************)
\* String.prototype.split(d) for a one-character separator d.
RECURSIVE split(_, _)
split(s, d) ==
    LET hits == {i \in 1..Len(s) : s[i] = d}
    IN  IF hits = {} THEN <<s>>
        ELSE LET i == CHOOSE h \in hits : \A g \in hits : h <= g
             IN  <<SubSeq(s, 1, i - 1)>> \o split(SubSeq(s, i + 1, Len(s)), d)

\* testEmptyLine: a row that is one empty field.
isEmptyLine(row) == Len(row) = 1 /\ row[1] = <<>>

\* input.indexOf(c, from) with positions counted from 1: 0 when there is
\* none.
indexOf(s, c, from) ==
    LET hits == {i \in from..Len(s) : i >= 1 /\ s[i] = c}
    IN  IF hits = {} THEN 0
        ELSE CHOOSE h \in hits : \A g \in hits : h <= g

\* value.replace(/""/g, '"'): each doubled quote is one quote.
RECURSIVE unescapeQuotes(_)
unescapeQuotes(s) ==
    IF Len(s) < 2 THEN s
    ELSE IF s[1] = "\"" /\ s[2] = "\""
         THEN <<"\"">> \o unescapeQuotes(SubSeq(s, 3, Len(s)))
         ELSE <<s[1]>> \o unescapeQuotes(Tail(s))

\* extraSpaces(index): the length of the text between the quote at qs and
\* index when that text is white space only, else 0.
extraSpaces(input, qs, index) ==
    IF index = 0 THEN 0
    ELSE LET between == SubSeq(input, qs + 1, index - 1)
         IN  IF between # <<>> /\ trim(between) = <<>> THEN Len(between) ELSE 0

\* The parser loop of papaparse from position cursor, with the fields of the
\* current row in row and the rows saved so far in rows; papaQuoted is its
\* inner loop, the search for the quote that closes the field opened before
\* cursor, resumed behind position qs.
RECURSIVE papaScan(_, _, _, _, _)
RECURSIVE papaQuoted(_, _, _, _, _, _)
papaQuoted(input, delim, cursor, qs, row, rows) ==
    LET q == indexOf(input, "\"", qs + 1)
        nextDelim == indexOf(input, delim, q + 1)
        nextNewline == indexOf(input, "\n", q + 1)
        checkUpTo == IF nextNewline = 0 THEN nextDelim
                     ELSE IF nextDelim = 0 THEN 0
                     ELSE Min(nextDelim, nextNewline)
        spDelim == extraSpaces(input, q, checkUpTo)
        spNewline == extraSpaces(input, q, nextNewline)
        value == unescapeQuotes(SubSeq(input, cursor, q - 1))
    IN  IF q = 0
        THEN \* no closing quote: the rest of the input is the last field
             Append(rows, Append(row, SubSeq(input, cursor, Len(input))))
        ELSE IF q = Len(input)
        THEN Append(rows, Append(row, value))
        ELSE IF input[q + 1] = "\""
        THEN papaQuoted(input, delim, cursor, q + 1, row, rows)
        ELSE IF q + 1 + spDelim <= Len(input) /\ input[q + 1 + spDelim] = delim
        THEN papaScan(input, delim, q + 1 + spDelim + 1, Append(row, value), rows)
        ELSE IF q + 1 + spNewline <= Len(input)
                /\ input[q + 1 + spNewline] = "\n"
        THEN papaScan(input, delim, q + 1 + spNewline + 1, <<>>,
                      Append(rows, Append(row, value)))
        ELSE \* a quote inside the field: the search goes on behind it
             papaQuoted(input, delim, cursor, q + 1, row, rows)

papaScan(input, delim, cursor, row, rows) ==
    LET nextDelim == indexOf(input, delim, cursor)
        nextNewline == indexOf(input, "\n", cursor)
    IN  IF cursor <= Len(input) /\ input[cursor] = "\""
        THEN papaQuoted(input, delim, cursor + 1, cursor, row, rows)
        ELSE IF nextDelim # 0 /\ (nextDelim < nextNewline \/ nextNewline = 0)
        THEN papaScan(input, delim, nextDelim + 1,
                      Append(row, SubSeq(input, cursor, nextDelim - 1)), rows)
        ELSE IF nextNewline # 0
        THEN papaScan(input, delim, nextNewline + 1, <<>>,
                      Append(rows,
                             Append(row, SubSeq(input, cursor, nextNewline - 1))))
        ELSE Append(rows, Append(row, SubSeq(input, cursor, Len(input))))

papaParse(input, delim, skipEmptyLines) ==
    IF input = <<>> THEN <<>>
    ELSE LET lines == split(input, "\n")
             rows == IF indexOf(input, "\"", 1) = 0
                     THEN [i \in 1..Len(lines) |-> split(lines[i], delim)]
                     ELSE papaScan(input, delim, 1, <<>>, <<>>)
         IN  IF skipEmptyLines
             THEN SelectSeq(rows, LAMBDA row : ~isEmptyLine(row))
             ELSE rows

(***************************************************************************)
(* The CSVData built from headers and data rows (parseCSV's last part).    *)
(***************************************************************************)
\* row[index] ?? dflt, for a 0-based index
cellOr(row, index, dflt) ==
    IF index >= 0 /\ index < Len(row) THEN row[index + 1] ELSE dflt

\* buildColumns with 1-based positions as the columns' indexes.
buildColumnsOneBased(headers, dataRows) ==
    [i \in 1..Len(headers) |->
        [name |-> headers[i],
         type |-> inferColumnType(
                     [r \in 1..Len(dataRows) |-> cellOr(dataRows[r], i - 1, <<>>)]),
         index |-> i]]

\* headers.map((name, index) => ({name, type: inferColumnType(...), index}))
buildColumns(headers, dataRows) ==
    [i \in 1..Len(headers) |->
        [name |-> headers[i],
         type |-> inferColumnType(
                     [r \in 1..Len(dataRows) |-> cellOr(dataRows[r], i - 1, <<>>)]),
         index |-> i - 1]]

buildData(headers, dataRows) ==
    [headers |-> headers,
     rows |-> dataRows,
     columns |-> buildColumns(headers, dataRows),
     rowCount |-> Len(dataRows)]

emptyData == [headers |-> <<>>, rows |-> <<>>, columns |-> <<>>, rowCount |-> 0]

(***************************************************************************)
(* processChartData (ChartDisplay.tsx).                                    *)
(***************************************************************************)
\* A ChartDataPoint is an object: its properties in insertion order.  A
\* property holds a string (t = "str", in s) or a number (t = "num", the
\* hundredths in n).
StrVal(x) == [t |-> "str", s |-> x, n |-> 0]
NumVal(h) == [t |-> "num", s |-> <<>>, n |-> h]

\* { [xCol]: xv, [yCol]: yv }: a second property of the same name
\* overwrites the first.
point(xCol, xv, yCol, yv) ==
    IF xCol = yCol THEN << [k |-> xCol, v |-> yv] >>
    ELSE << [k |-> xCol, v |-> xv], [k |-> yCol, v |-> yv] >>

hasKey(p, key) == \E i \in 1..Len(p) : p[i].k = key

\* p[key]
get(p, key) == p[CHOOSE i \in 1..Len(p) : p[i].k = key].v

\* data.columns.find(c => c.name.toLowerCase() === name.toLowerCase()):
\* the position of the first such column, 0 when there is none.
findColumn(columns, name) ==
    LET hits == {i \in 1..Len(columns) :
                    toLowerCase(columns[i].name) = toLowerCase(name)}
    IN  IF hits = {} THEN 0
        ELSE CHOOSE i \in hits : \A j \in hits : i <= j

\* The accumulators of one group; min and max may be +Infinity/-Infinity.
PosInf == [inf |-> 1, v |-> 0]
NegInf == [inf |-> -1, v |-> 0]
Fin(h) == [inf |-> 0, v |-> h]

MathMin(a, h) == IF a.inf = 1 \/ (a.inf = 0 /\ h < a.v) THEN Fin(h) ELSE a
MathMax(a, h) == IF a.inf = -1 \/ (a.inf = 0 /\ h > a.v) THEN Fin(h) ELSE a

groupIndex(groups, key) ==
    LET hits == {i \in 1..Len(groups) : groups[i].key = key}
    IN  IF hits = {} THEN 0 ELSE CHOOSE i \in hits : TRUE

\* groups.set(key, stats): a Map keeps the place of a key it already holds
\* and appends a new one.
groupSet(groups, key, stats) ==
    LET i == groupIndex(groups, key)
        g == [key |-> key, sum |-> stats.sum, count |-> stats.count,
              min |-> stats.min, max |-> stats.max]
    IN  IF i = 0 THEN Append(groups, g) ELSE [groups EXCEPT ![i] = g]

\* groups.get(key) ?? dflt
groupGet(groups, key, dflt) ==
    LET i == groupIndex(groups, key)
    IN  IF i = 0 THEN dflt ELSE groups[i]

\* The body of data.rows.forEach(row => ...) for one row.
groupRow(groups, row, xIdx, yIdx, isCountMode) ==
    LET xVal == trim(cellOr(row, xIdx, <<>>))
    IN  IF xVal = <<>> THEN groups
        ELSE IF isCountMode THEN
            LET current == groupGet(groups, xVal,
                    [sum |-> 0, count |-> 0, min |-> Fin(0), max |-> Fin(0)])
            IN  groupSet(groups, xVal,
                    [current EXCEPT !.count = current.count + 1])
        ELSE IF yIdx >= 0 THEN
            LET yVal == parseFloat(cellOr(row, yIdx, <<"0">>))
            IN  IF ~isNaN(yVal) THEN
                    LET current == groupGet(groups, xVal,
                            [sum |-> 0, count |-> 0, min |-> PosInf, max |-> NegInf])
                    IN  groupSet(groups, xVal,
                            [sum |-> current.sum + yVal.v,
                             count |-> current.count + 1,
                             min |-> MathMin(current.min, yVal.v),
                             max |-> MathMax(current.max, yVal.v)])
                ELSE groups
        ELSE groups

\* data.rows.forEach over the rows lo..hi, in order, from the groups given.
\* (The test on left has one outcome: it makes the rows before mid be
\* evaluated before the rows behind it.)
RECURSIVE groupRange(_, _, _, _, _, _, _)
groupRange(groups, rows, lo, hi, xIdx, yIdx, isCountMode) ==
    IF lo > hi THEN groups
    ELSE IF lo = hi THEN groupRow(groups, rows[lo], xIdx, yIdx, isCountMode)
    ELSE LET mid == (lo + hi) \div 2
             left == groupRange(groups, rows, lo, mid, xIdx, yIdx, isCountMode)
         IN  IF Len(left) >= 0
             THEN groupRange(left, rows, mid + 1, hi, xIdx, yIdx, isCountMode)
             ELSE left

\* data.rows.forEach over the first n rows.
groupRows(rows, n, xIdx, yIdx, isCountMode) ==
    groupRange(<<>>, rows, 1, n, xIdx, yIdx, isCountMode)

\* Math.round(q) for the quotient q = a / b, b > 0: floor(q + 1/2).
roundDiv(a, b) == (2 * a + b) \div (2 * b)

\* The switch on chart.aggregation, in hundredths, followed by
\* Math.round(value * 100) / 100.
groupValue(stats, aggregation) ==
    CASE aggregation = "sum" -> stats.sum
      [] aggregation = "avg" ->
            IF stats.count > 0 THEN roundDiv(stats.sum, stats.count) ELSE 0
      [] aggregation = "count" -> 100 * stats.count
      [] aggregation = "min" -> IF stats.min.inf = 1 THEN 0 ELSE stats.min.v
      [] aggregation = "max" -> IF stats.max.inf = -1 THEN 0 ELSE stats.max.v
      [] OTHER -> stats.sum

\* The aggregated branch: one point per group, in the Map's order.
groupedResult(d, c, xCol, xIdx, yCol, yIdx) ==
    LET groups == groupRows(d.rows, Len(d.rows), xIdx, yIdx,
                            c.aggregation = "count")
    IN  [i \in 1..Len(groups) |->
            point(xCol, StrVal(groups[i].key),
                  yCol, NumVal(groupValue(groups[i], c.aggregation)))]

\* The raw branch: slice(0, min(2 * limit, length)).map(...).filter(...)
rawResult(d, xCol, xIdx, yCol, yIdx, lim) ==
    LET rows == SubSeq(d.rows, 1, Min(lim * 2, Len(d.rows)))
        items == [i \in 1..Len(rows) |->
                    [x |-> cellOr(rows[i], xIdx, <<>>),
                     y |-> parseFloat(cellOr(rows[i], yIdx, <<"0">>))]]
        kept == SelectSeq(items, LAMBDA it : ~isNaN(it.y))
    IN  [i \in 1..Len(kept) |->
            point(xCol, StrVal(kept[i].x), yCol, NumVal(kept[i].y.v))]

\* The comparator of result.sort: negative when a goes before b.
compare(a, b, yCol, order) ==
    IF order = "desc" THEN get(b, yCol).n - get(a, yCol).n
    ELSE get(a, yCol).n - get(b, yCol).n

\* Array.prototype.sort is stable: e goes behind every element that does not
\* compare greater than it.
insertSorted(sorted, e, yCol, order) ==
    LET notAfter == {i \in 1..Len(sorted) :
                        compare(sorted[i], e, yCol, order) <= 0}
        k == IF notAfter = {} THEN 0
             ELSE CHOOSE i \in notAfter : \A j \in notAfter : j <= i
    IN  SubSeq(sorted, 1, k) \o <<e>> \o SubSeq(sorted, k + 1, Len(sorted))

\* The entries lo..hi of result inserted, in order, into sorted.  (The
\* test on left has one outcome: it makes the entries before mid be inserted
\* before the entries behind it are looked at.)
RECURSIVE sortRange(_, _, _, _, _, _)
sortRange(sorted, result, lo, hi, yCol, order) ==
    IF lo > hi THEN sorted
    ELSE IF lo = hi THEN insertSorted(sorted, result[lo], yCol, order)
    ELSE LET mid == (lo + hi) \div 2
             left == sortRange(sorted, result, lo, mid, yCol, order)
         IN  IF Len(left) >= 0
             THEN sortRange(left, result, mid + 1, hi, yCol, order)
             ELSE left

\* The first n entries of result, sorted.
sortFirst(result, n, yCol, order) == sortRange(<<>>, result, 1, n, yCol, order)

\* A sort that puts an entry before the entries of equal y.
insertBeforeEqual(sorted, e, yCol, order) ==
    LET before == {i \in 1..Len(sorted) :
                      compare(sorted[i], e, yCol, order) < 0}
        k == IF before = {} THEN 0
             ELSE CHOOSE i \in before : \A j \in before : j <= i
    IN  SubSeq(sorted, 1, k) \o <<e>> \o SubSeq(sorted, k + 1, Len(sorted))

RECURSIVE sortFirstUnstable(_, _, _, _)
sortFirstUnstable(result, n, yCol, order) ==
    IF n = 0 THEN <<>>
    ELSE insertBeforeEqual(sortFirstUnstable(result, n - 1, yCol, order),
                           result[n], yCol, order)

applySortUnstable(result, yCol, order) ==
    IF order # "none" THEN sortFirstUnstable(result, Len(result), yCol, order)
    ELSE result

\* if (sortOrder !== "none") result.sort(...)
applySort(result, yCol, order) ==
    IF order # "none" THEN sortFirst(result, Len(result), yCol, order)
    ELSE result

\* yCol falling back to the chart's yAxis instead of "count".
yColOfAxisName(d, c) ==
    LET yi == findColumn(d.columns, c.yAxis)
    IN  IF yi # 0 THEN d.columns[yi].name ELSE c.yAxis

\* const yCol = yColDef?.name ?? "count"
yColOf(d, c) ==
    LET yi == findColumn(d.columns, c.yAxis)
    IN  IF yi # 0 THEN d.columns[yi].name ELSE <<"c", "o", "u", "n", "t">>

\* const yIdx = yColDef?.index ?? -1
yIdxOf(d, c) ==
    LET yi == findColumn(d.columns, c.yAxis)
    IN  IF yi # 0 THEN d.columns[yi].index ELSE -1

\* The result before sorting and limiting when an unresolved x column falls
\* back to the first column instead of giving [].
unsortedResultFirstColumn(d, c, lim) ==
    LET found == findColumn(d.columns, c.xAxis)
        xi == IF found = 0 /\ Len(d.columns) > 0 THEN 1 ELSE found
        xCol == d.columns[xi].name
        xIdx == d.columns[xi].index
        yCol == yColOf(d, c)
        yIdx == yIdxOf(d, c)
    IN  IF xi = 0 THEN <<>>
        ELSE IF c.aggregation # "none"
             THEN groupedResult(d, c, xCol, xIdx, yCol, yIdx)
        ELSE IF yIdx >= 0 THEN rawResult(d, xCol, xIdx, yCol, yIdx, lim)
        ELSE <<>>

\* The result before sorting and limiting: [] when the x column does not
\* resolve, else the aggregated or the raw branch.
unsortedResult(d, c, lim) ==
    LET xi == findColumn(d.columns, c.xAxis)
        xCol == d.columns[xi].name
        xIdx == d.columns[xi].index
        yCol == yColOf(d, c)
        yIdx == yIdxOf(d, c)
    IN  IF xi = 0 THEN <<>>
        ELSE IF c.aggregation # "none"
             THEN groupedResult(d, c, xCol, xIdx, yCol, yIdx)
        ELSE IF yIdx >= 0 THEN rawResult(d, xCol, xIdx, yCol, yIdx, lim)
        ELSE <<>>

\* processChartData limiting before it sorts.
processChartDataLimitFirst(d, c, order, lim) ==
    LET unsorted == unsortedResult(d, c, lim)
    IN  applySort(SubSeq(unsorted, 1, Min(lim, Len(unsorted))),
                  yColOf(d, c), order)

processChartData(d, c, order, lim) ==
    LET sorted == applySort(unsortedResult(d, c, lim), yColOf(d, c), order)
    IN  SubSeq(sorted, 1, Min(lim, Len(sorted)))

(***************************************************************************)
(* Inputs of the model.                                                    *)
(***************************************************************************)
\* All sequences over S of length at most n.
RECURSIVE SeqsUpTo(_, _)
SeqsUpTo(S, n) ==
    IF n = 0 THEN {<<>>}
    ELSE LET shorter == SeqsUpTo(S, n - 1)
         IN  shorter \cup {Append(q, e) : q \in shorter, e \in S}

ChartHeaders == << <<"K">>, <<"v">> >>

\* Data rows under ChartHeaders: the rows of the sum example, a row whose x
\* needs trimming and whose y is no number, a row with an empty x, and a row
\* that ends before the y column.
ChartRows ==
    { << <<"A">>, <<"1", "0">> >>,
      << <<"B">>, <<"5">> >>,
      << <<"A">>, <<"3">> >>,
      << <<" ", "A">>, <<"x">> >>,
      << <<>>, <<"5">> >>,
      << <<"B">> >> }

ChartDatasets ==
    {buildData(ChartHeaders, rows) : rows \in SeqsUpTo(ChartRows, MaxRows)}

Aggregations == {"none", "sum", "avg", "count", "min", "max"}
SortOrders == {"none", "asc", "desc"}

\* xAxis: a header up to letter case, or no header.  yAxis likewise.
XAxes == {<<"k">>, <<"z">>}
YAxes == {<<"V">>, <<"n">>}

Charts == [xAxis : XAxes, yAxis : YAxes, aggregation : Aggregations]

noChart == [xAxis |-> <<>>, yAxis |-> <<>>, aggregation |-> "none"]

\* { summary: null, anomalies: null, charts: null }: <<>> stands for null.
noResults == [summary |-> <<>>, anomalies |-> <<>>, charts |-> <<>>]

(***************************************************************************)
(* chat-store.ts: the state of the module when it is loaded.               *)
(***************************************************************************)
initialState ==
    [history |-> <<>>, streamingResponse |-> <<>>, currentPrompt |-> <<>>,
     activeTab |-> "summary", isLoading |-> FALSE, pendingPrompt |-> <<>>,
     version |-> 0]

\* The callbacks components subscribe with.
Callbacks == {"a", "b"}

\* What seen holds for a callback that was not called since it subscribed.
NotCalled == 0 - 1

(***************************************************************************)
(* State machine.                                                          *)
(***************************************************************************)
Init ==
    /\ pc = "idle"
    /\ data = emptyData
    /\ chart = noChart
    /\ sortOrder = "none"
    /\ limit = 0
    /\ processedData = <<>>
    /\ content = <<>>
    /\ settings = [delimiter |-> <<>>, hasHeader |-> TRUE, skipEmptyLines |-> TRUE]
    /\ allRows = <<>>
    /\ parsed = emptyData
    /\ values = <<>>
    /\ inferred = "string"
    /\ sample = <<>>
    /\ detected = ","
    /\ csvData = <<>>
    /\ csvSettings = [delimiter |-> <<>>, hasHeader |-> TRUE, skipEmptyLines |-> TRUE]
    /\ currentFileName = <<>>
    /\ generatedCharts = <<>>
    /\ analysisResults = noResults
    /\ showSampleDropdown = FALSE
    /\ apiSettings = <<>>
    /\ reading = <<>>
    /\ now = 0
    /\ download = <<>>
    /\ isLoading = FALSE
    /\ error = <<>>
    /\ suggestions = <<>>
    /\ selectedCharts = {}
    /\ request = <<>>
    /\ received = <<>>
    /\ isAnalyzingAll = FALSE
    /\ analysis = <<>>
    /\ heap = (0 :> initialState)
    /\ store = 0
    /\ subscribers = <<>>
    /\ microtasks = 0
    /\ seen = [c \in Callbacks |-> NotCalled]
    /\ snapshot = <<>>
    /\ call = <<>>

\* ChartDisplay is rendered with a dataset as its data prop.
ChartDisplay ==
    /\ pc = "idle"
    /\ \E d \in ChartDatasets : data' = d
    /\ pc' = "data"
    /\ UNCHANGED <<chart, sortOrder, limit, processedData>>
    /\ UNCHANGED <<csvVars, inferVars, delimVars, pageVars>>

\* SingleChart's useMemo: one call
\* processChartData(data, chart, sortOrder, limitResults).
ProcessChartData ==
    /\ pc = "data"
    /\ \E c \in Charts, o \in SortOrders, l \in 0..MaxLimit :
        /\ chart' = c
        /\ sortOrder' = o
        /\ limit' = l
        /\ processedData' = processChartData(data, c, o, l)
    /\ pc' = "chart"
    /\ UNCHANGED data
    /\ UNCHANGED <<csvVars, inferVars, delimVars, pageVars>>

NextChart == ChartDisplay \/ ProcessChartData

SpecChart == Init /\ [][NextChart]_vars

(***************************************************************************)
(* Claims about processChartData, checked under SpecChart.                 *)
(***************************************************************************)
CountLiteral == <<"c", "o", "u", "n", "t">>

\* The chart's axis names resolved against the dataset, case-insensitively.
XResolves ==
    \E i \in 1..Len(data.columns) :
        toLowerCase(data.columns[i].name) = toLowerCase(chart.xAxis)
YResolves ==
    \E i \in 1..Len(data.columns) :
        toLowerCase(data.columns[i].name) = toLowerCase(chart.yAxis)

XColumn == data.columns[findColumn(data.columns, chart.xAxis)]
YColumn == data.columns[findColumn(data.columns, chart.yAxis)]

\* The trimmed x value and the parsed y value of dataset row r.
XKey(r) == trim(cellOr(data.rows[r], XColumn.index, <<>>))
XRaw(r) == cellOr(data.rows[r], XColumn.index, <<>>)
\* Row r has a y cell, and that cell parses as a number.
YPresent(r) == YColumn.index < Len(data.rows[r])
YHundredths(r) == parseFloat(cellOr(data.rows[r], YColumn.index, <<>>)).v
YNumeric(r) ==
    YPresent(r) /\ ~isNaN(parseFloat(data.rows[r][YColumn.index + 1]))

\* The rows at which a non-empty trimmed x value appears for the first time.
FirstAppearances ==
    {r \in 1..Len(data.rows) :
        XKey(r) # <<>> /\ \A q \in 1..(r - 1) : XKey(q) # XKey(r)}

\* The sum of the y values of the rows in S.
RECURSIVE SumY(_)
SumY(S) ==
    IF S = {} THEN 0
    ELSE LET r == CHOOSE q \in S : TRUE
         IN  YHundredths(r) + SumY(S \ {r})

\* C1: when chart.xAxis matches no column name case-insensitively, the
\* result is the empty sequence, whatever the aggregation, the sort order,
\* the limit and the yAxis.
C1_UnresolvedXGivesEmpty ==
    (pc = "chart" /\ ~XResolves) => processedData = <<>>

C1_Witness ==
    /\ pc = "chart"
    /\ ~XResolves
    /\ YResolves
    /\ chart.aggregation = "sum"
    /\ sortOrder = "desc"
    /\ limit >= 1
    /\ \E r \in 1..Len(data.rows) :
          trim(cellOr(data.rows[r], 0, <<>>)) # <<>>
          /\ ~isNaN(parseFloat(cellOr(data.rows[r], 1, <<"0">>)))
    /\ processedData = <<>>

\* The row where the x value of result entry n first appears, 0 when no row
\* has it.
FirstRowOf(n) ==
    LET p == processedData[n]
        rows == {r \in FirstAppearances :
                    hasKey(p, XColumn.name)
                    /\ get(p, XColumn.name) = StrVal(XKey(r))}
    IN  IF rows = {} THEN 0 ELSE CHOOSE r \in rows : TRUE

\* C2: with aggregation sum, sort order none and a limit that keeps every
\* group, each entry of the result stands for one distinct non-empty
\* trimmed x value and holds the sum of the numeric y cells of the rows with
\* that trimmed x, every x value that has a numeric y cell has its entry,
\* and the entries follow the order in which their x values first appear in
\* the dataset rows.
C2_SumInFirstAppearanceOrder ==
    (/\ pc = "chart"
     /\ chart.aggregation = "sum"
     /\ sortOrder = "none"
     /\ XResolves
     /\ YResolves
     /\ XColumn.name # YColumn.name
     /\ limit >= Cardinality(FirstAppearances))
    => /\ \A n \in 1..Len(processedData) :
            /\ FirstRowOf(n) # 0
            /\ get(processedData[n], YColumn.name) =
                  NumVal(SumY({q \in 1..Len(data.rows) :
                                  XKey(q) = XKey(FirstRowOf(n)) /\ YNumeric(q)}))
       /\ \A r \in FirstAppearances :
            (\E q \in 1..Len(data.rows) : XKey(q) = XKey(r) /\ YNumeric(q))
            => \E n \in 1..Len(processedData) : FirstRowOf(n) = r
       /\ \A m, n \in 1..Len(processedData) :
            m < n => FirstRowOf(m) < FirstRowOf(n)

\* C3: with aggregation count, a yAxis that names no column and a limit that
\* keeps every group, the result holds exactly one entry per distinct
\* non-empty trimmed x value, and its y, under the key "count", is the
\* number of rows with that trimmed x.
C3_CountWithoutYColumn ==
    (/\ pc = "chart"
     /\ chart.aggregation = "count"
     /\ XResolves
     /\ ~YResolves
     /\ limit >= Cardinality(FirstAppearances))
    => /\ Len(processedData) = Cardinality(FirstAppearances)
       /\ \A r \in FirstAppearances :
            \E n \in 1..Len(processedData) :
                processedData[n] =
                    point(XColumn.name, StrVal(XKey(r)), CountLiteral,
                          NumVal(100 * Cardinality(
                              {q \in 1..Len(data.rows) : XKey(q) = XKey(r)})))

C3_Witness ==
    /\ pc = "chart"
    /\ chart.aggregation = "count"
    /\ XResolves
    /\ ~YResolves
    /\ Cardinality(FirstAppearances) = 2
    /\ Len(data.rows) = 3
    /\ Len(processedData) = 2
    /\ \E n \in 1..2 : get(processedData[n], CountLiteral) = NumVal(200)

\* The y value of a result entry, in hundredths.
YOf(p) == get(p, yColOf(data, chart)).n

\* C4: the limit is applied last: the result is the first `limit` entries of
\* the sorted sequence (of the unsorted one when the order is none), so it
\* has at most `limit` entries, and with order desc and limit 1 the one
\* entry returned has the greatest y of all entries.
C4_LimitAppliedLast ==
    pc = "chart" =>
        LET unsorted == unsortedResult(data, chart, limit)
            sorted == applySort(unsorted, yColOf(data, chart), sortOrder)
        IN  /\ Len(processedData) <= limit
            /\ Len(processedData) = Min(limit, Len(sorted))
            /\ \A n \in 1..Len(processedData) : processedData[n] = sorted[n]
            /\ (sortOrder = "desc" /\ limit = 1 /\ unsorted # <<>>) =>
                    /\ Len(processedData) = 1
                    /\ \A n \in 1..Len(unsorted) :
                            YOf(unsorted[n]) <= YOf(processedData[1])

C4_Witness ==
    /\ pc = "chart"
    /\ chart.aggregation = "sum"
    /\ sortOrder = "desc"
    /\ limit = 1
    /\ Len(unsortedResult(data, chart, limit)) = 2
    /\ YOf(unsortedResult(data, chart, limit)[1]) = 500
    /\ Len(processedData) = 1
    /\ YOf(processedData[1]) = 1300
    /\ get(processedData[1], <<"K">>) = StrVal(<<"A">>)

\* The place a stable sort on y gives entry i of the sequence u: behind the
\* entries that sort strictly before it and behind the earlier entries of
\* equal y.
StablePlace(u, i, order) ==
    1 + Cardinality({j \in 1..Len(u) :
            \/ (order = "asc" /\ YOf(u[j]) < YOf(u[i]))
            \/ (order = "desc" /\ YOf(u[j]) > YOf(u[i]))
            \/ (YOf(u[j]) = YOf(u[i]) /\ j < i)})

\* C5: sorting uses y as its only key and is stable: entries of equal y keep
\* the order they had before sorting, so the entries that survive the limit
\* are decided by the order of the dataset rows.
C5_StableSortOnY ==
    (pc = "chart" /\ sortOrder # "none") =>
        LET u == unsortedResult(data, chart, limit)
        IN  /\ Len(processedData) = Min(limit, Len(u))
            /\ \A i \in 1..Len(u) :
                  StablePlace(u, i, sortOrder) <= Len(processedData) =>
                      processedData[StablePlace(u, i, sortOrder)] = u[i]

C5_Witness ==
    /\ pc = "chart"
    /\ sortOrder # "none"
    /\ LET u == unsortedResult(data, chart, limit)
       IN  /\ Len(u) = 3
           /\ YOf(u[1]) = YOf(u[3])
           /\ YOf(u[2]) < YOf(u[1])
           /\ u[1] # u[3]
           /\ Len(processedData) = 2
           /\ sortOrder = "asc" => processedData[2] = u[1]
           /\ sortOrder = "desc" => processedData = <<u[1], u[3]>>

\* The rows the raw branch considers: the first min(2 * limit, rowCount).
Considered == 1..Min(2 * limit, Len(data.rows))

RawPoint(r) ==
    point(XColumn.name, StrVal(XRaw(r)), YColumn.name, NumVal(YHundredths(r)))

\* C6: in raw mode a row whose y cell is no number is absent from the
\* result and removes only itself: every entry comes from a considered row
\* whose y cell is a number, and when the limit keeps them all, every
\* considered row whose y cell is a number has its entry.
C6_RawDropsOnlyUnparsableRows ==
    (/\ pc = "chart"
     /\ chart.aggregation = "none"
     /\ XResolves
     /\ YResolves)
    => LET numeric == {r \in Considered : YNumeric(r)}
       IN  /\ \A n \in 1..Len(processedData) :
                \E r \in numeric : processedData[n] = RawPoint(r)
           /\ Cardinality(numeric) <= limit =>
                \A r \in numeric :
                    \E n \in 1..Len(processedData) :
                        processedData[n] = RawPoint(r)

\* The groups of the aggregated branch after its scan of the first n rows.
GroupsAfter(n) ==
    groupRows(data.rows, n, XColumn.index, YColumn.index,
              chart.aggregation = "count")

\* The rows of the dataset without those that have no numeric y cell.
RECURSIVE NumericRows(_)
NumericRows(n) ==
    IF n = 0 THEN <<>>
    ELSE IF YNumeric(n) THEN Append(NumericRows(n - 1), data.rows[n])
    ELSE NumericRows(n - 1)

\* C19: with sum, avg, min or max, a row whose y cell is empty, absent or
\* otherwise no number leaves the sum, count, min and max of every group as
\* they were, and the scan goes on: the groups at its end are those of a scan
\* of the other rows alone.
C19_NonNumericYLeavesGroups ==
    (/\ pc = "chart"
     /\ chart.aggregation \in {"sum", "avg", "min", "max"}
     /\ XResolves
     /\ YResolves)
    => /\ \A r \in 1..Len(data.rows) :
            ~YNumeric(r) => GroupsAfter(r) = GroupsAfter(r - 1)
       /\ LET others == NumericRows(Len(data.rows))
          IN  GroupsAfter(Len(data.rows)) =
                 groupRows(others, Len(others), XColumn.index, YColumn.index,
                           FALSE)

\* The entry of the result for the x value of row r, <<>> when it has none.
EntryOf(r) ==
    LET hits == {n \in 1..Len(processedData) :
                    /\ hasKey(processedData[n], XColumn.name)
                    /\ get(processedData[n], XColumn.name) = StrVal(XKey(r))}
    IN  IF hits = {} THEN <<>> ELSE processedData[CHOOSE n \in hits : TRUE]

\* C20: with min, max or avg (order none, a limit that keeps every group),
\* the result has one entry for every distinct non-empty trimmed x value of
\* the dataset, and the entry of a group no row of which has a numeric y
\* holds the value 0.
C20_GroupWithoutNumericYIsZero ==
    (/\ pc = "chart"
     /\ chart.aggregation \in {"min", "max", "avg"}
     /\ sortOrder = "none"
     /\ XResolves
     /\ YResolves
     /\ limit >= Cardinality(FirstAppearances))
    => /\ Len(processedData) = Cardinality(FirstAppearances)
       /\ \A r \in FirstAppearances :
            /\ EntryOf(r) # <<>>
            /\ (\A q \in 1..Len(data.rows) : XKey(q) = XKey(r) => ~YNumeric(q))
                => EntryOf(r) =
                      point(XColumn.name, StrVal(XKey(r)),
                            YColumn.name, NumVal(0))

(***************************************************************************)
(* parseCSV (csv-parser.ts).                                               *)
(***************************************************************************)
\* The decimal digits of a positive integer.
RECURSIVE decimal(_)
decimal(n) ==
    LET d == <<"0", "1", "2", "3", "4", "5", "6", "7", "8", "9">>[(n % 10) + 1]
    IN  IF n < 10 THEN <<d>> ELSE Append(decimal(n \div 10), d)

\* `Column ${i}`
columnName(i) == <<"C", "o", "l", "u", "m", "n", " ">> \o decimal(i)

\* settings.delimiter || detectDelimiter(content.slice(0, 2000))
delimiterOf(text, st) ==
    IF st.delimiter # <<>> THEN st.delimiter[1]
    ELSE detectDelimiter(slice(text, SampleLength))

\* result.data
allRowsOf(text, st) == papaParse(text, delimiterOf(text, st), st.skipEmptyLines)

\* headersOf numbering its placeholders from 0.
headersOfZeroBased(firstRow, hasHeader) ==
    [i \in 1..Len(firstRow) |->
        IF hasHeader /\ trim(firstRow[i]) # <<>> THEN trim(firstRow[i])
        ELSE columnName(i - 1)]

\* firstRow.map((h, i) => h.trim() || `Column ${i + 1}`) when hasHeader, else
\* firstRow.map((_, i) => `Column ${i + 1}`); i + 1 is the 1-based position.
headersOf(firstRow, hasHeader) ==
    [i \in 1..Len(firstRow) |->
        IF hasHeader /\ trim(firstRow[i]) # <<>> THEN trim(firstRow[i])
        ELSE columnName(i)]

\* parseCSV keeping the header row among the data rows.
parseCSVKeepHeaderRow(text, st) ==
    LET rows == allRowsOf(text, st)
    IN  IF Len(rows) = 0 THEN emptyData
        ELSE buildData(headersOf(rows[1], st.hasHeader), rows)

\* parseCSV without the early return for zero rows, the missing first row
\* read as one empty cell.
parseCSVDefaultCell(text, st) ==
    LET rows == allRowsOf(text, st)
        firstRow == IF Len(rows) = 0 THEN << <<>> >> ELSE rows[1]
        dataRows == IF st.hasHeader THEN SubSeq(rows, 2, Len(rows)) ELSE rows
    IN  buildData(headersOf(firstRow, st.hasHeader), dataRows)

parseCSV(text, st) ==
    LET rows == allRowsOf(text, st)
        dataRows == IF st.hasHeader THEN SubSeq(rows, 2, Len(rows)) ELSE rows
    IN  IF Len(rows) = 0 THEN emptyData
        ELSE buildData(headersOf(rows[1], st.hasHeader), dataRows)

(***************************************************************************)
(* generateDataSummary (csv-parser.ts).                                    *)
(***************************************************************************)
\* Two decimal digits.
twoDigits(n) == decimal(n \div 10) \o decimal(n % 10)

\* x.toFixed(2) for the number of h hundredths.
toFixed2(h) ==
    LET m == IF h < 0 THEN 0 - h ELSE h
    IN  (IF h < 0 THEN <<"-">> ELSE <<>>)
        \o decimal(m \div 100) \o <<".">> \o twoDigits(m % 100)

\* (a / n).toFixed(2) for a sum of a hundredths: the nearest hundredth, a
\* tie away from zero.
avgFixed2(a, n) ==
    LET m == IF a < 0 THEN 0 - a ELSE a
        q == (2 * m + n) \div (2 * n)
    IN  toFixed2(IF a < 0 THEN 0 - q ELSE q)

\* arr.join(sep)
RECURSIVE join(_, _)
join(arr, sep) ==
    IF arr = <<>> THEN <<>>
    ELSE IF Len(arr) = 1 THEN arr[1]
    ELSE arr[1] \o sep \o join(Tail(arr), sep)

\* Array.from(new Set(vs)): the values in the order of their first
\* occurrence.
uniqueValues(vs) ==
    LET firsts == {i \in 1..Len(vs) : \A j \in 1..(i - 1) : vs[j] # vs[i]}
    IN  [k \in 1..Cardinality(firsts) |->
            vs[CHOOSE i \in firsts :
                  Cardinality({j \in firsts : j < i}) = k - 1]]

\* numbers.reduce((a, b) => a + b, 0) over the positions lo..hi.
RECURSIVE sumRange(_, _, _)
sumRange(ns, lo, hi) ==
    IF lo > hi THEN 0
    ELSE IF lo = hi THEN ns[lo]
    ELSE LET mid == (lo + hi) \div 2
         IN  sumRange(ns, lo, mid) + sumRange(ns, mid + 1, hi)

sumOf(ns) == sumRange(ns, 1, Len(ns))

minOf(ns) == CHOOSE m \in {ns[i] : i \in 1..Len(ns)} :
                \A i \in 1..Len(ns) : m <= ns[i]
maxOf(ns) == CHOOSE m \in {ns[i] : i \in 1..Len(ns)} :
                \A i \in 1..Len(ns) : m >= ns[i]

\* The line generateDataSummary pushes for one column.
columnLine(d, col) ==
    LET vals == [r \in 1..Len(d.rows) |-> cellOr(d.rows[r], col.index, <<>>)]
        nonEmpty == SelectSeq(vals, LAMBDA v : trim(v) # <<>>)
        parsedNumbers == [i \in 1..Len(nonEmpty) |->
                            parseFloat(cleanNumber(nonEmpty[i]))]
        kept == SelectSeq(parsedNumbers, LAMBDA n : ~isNaN(n))
        numbers == [i \in 1..Len(kept) |-> kept[i].v]
        unique == uniqueValues(nonEmpty)
        head == <<"-", " ">> \o col.name
    IN  CASE col.type = "number" ->
               IF Len(numbers) > 0
               THEN head \o <<" ", "(", "n", "u", "m", "b", "e", "r", ")",
                              ":", " ", "m", "i", "n", "=">>
                    \o toFixed2(minOf(numbers)) \o <<",", " ", "m", "a", "x", "=">>
                    \o toFixed2(maxOf(numbers)) \o <<",", " ", "a", "v", "g", "=">>
                    \o avgFixed2(sumOf(numbers), Len(numbers)) \o <<",", " ">>
                    \o decimal(Len(numbers)) \o <<" ", "v", "a", "l", "u", "e", "s">>
               ELSE head \o <<" ", "(", "n", "u", "m", "b", "e", "r", ")",
                              ":", " ", "n", "o", " ", "v", "a", "l", "i",
                              "d", " ", "v", "a", "l", "u", "e", "s">>
          [] col.type = "string" ->
               head \o <<" ", "(", "t", "e", "x", "t", ")", ":", " ">> \o decimal(Len(unique))
               \o <<" ", "u", "n", "i", "q", "u", "e", " ", "v", "a", "l",
                    "u", "e", "s", ",", " ", "e", "x", "a", "m", "p", "l",
                    "e", "s", ":", " ">>
               \o join(slice(unique, 5), <<",", " ">>)
          [] col.type = "date" ->
               head \o <<" ", "(", "d", "a", "t", "e", ")", ":", " ">> \o decimal(Len(nonEmpty)) \o <<" ", "v", "a", "l", "u", "e", "s">>
          [] OTHER ->
               head \o <<" ", "(", "b", "o", "o", "l", "e", "a", "n", ")",
                         ":", " ">> \o decimal(Len(nonEmpty)) \o <<" ", "v", "a", "l", "u", "e", "s">>

\* `Row ${i + 1}: ${rowData}` for the row at position i (from 1).
sampleRowLine(d, i) ==
    LET cells == [c \in 1..Len(d.columns) |->
                    d.columns[c].name \o <<":", " ">>
                    \o cellOr(d.rows[i], d.columns[c].index, <<"N", "/", "A">>)]
    IN  <<"R", "o", "w", " ">> \o decimal(i) \o <<":", " ">>
        \o join(cells, <<",", " ">>)

generateDataSummary(d) ==
    LET summary ==
            << <<"D", "a", "t", "a", "s", "e", "t", " ", "w", "i", "t", "h",
                 " ">> \o decimal(d.rowCount) \o <<" ", "r", "o", "w", "s", " ", "a", "n", "d", " ">>
                 \o decimal(Len(d.columns)) \o <<" ", "c", "o", "l", "u", "m", "n", "s", ".">>,
               <<"\n", "C", "o", "l", "u", "m", "n", "s", ":">> >>
            \o [c \in 1..Len(d.columns) |-> columnLine(d, d.columns[c])]
            \o << <<"\n", "F", "i", "r", "s", "t", " ", "5", " ", "r", "o",
                    "w", "s", " ", "s", "a", "m", "p", "l", "e", ":">> >>
            \o [i \in 1..Min(5, Len(d.rows)) |-> sampleRowLine(d, i)]
    IN  join(summary, <<"\n">>)

(***************************************************************************)
(* Inputs and actions of the parser.                                       *)
(***************************************************************************)
MaxText == 4       \* characters of a text handed to parseCSV
MaxValues == 3     \* values of a column handed to inferColumnType
MaxSampleText == 4 \* characters of a sample handed to detectDelimiter

TextChars == {"a", "1", " ", ",", ";", "\n"}
Texts == SeqsUpTo(TextChars, MaxText)

SettingsSet ==
    [delimiter : {<<>>, <<",">>, <<";">>},
     hasHeader : BOOLEAN,
     skipEmptyLines : BOOLEAN]

\* One call parseCSV(content, settings).
ParseCSV ==
    /\ pc = "idle"
    /\ \E text \in Texts, st \in SettingsSet :
        /\ content' = text
        /\ settings' = st
        /\ allRows' = allRowsOf(text, st)
        /\ parsed' = parseCSV(text, st)
    /\ pc' = "parsed"
    /\ UNCHANGED <<chartVars, inferVars, delimVars, pageVars>>

NextCsv == ParseCSV

SpecCsv == Init /\ [][NextCsv]_vars

\* Column values: booleans that are digits, a number with a thousands
\* separator, a boolean word in capitals with a trailing space, a word, a
\* blank value and a date.
InferValues ==
    { <<"0">>, <<"1">>, <<"1", ",", "5">>, <<"Y", "e", "s", " ">>, <<"a">>,
      <<" ">>, <<"2", "0", "2", "0", "-", "0", "1", "-", "1", "5">> }

\* One call inferColumnType(values).
InferColumnType ==
    /\ pc = "idle"
    /\ \E vs \in SeqsUpTo(InferValues, MaxValues) :
        /\ values' = vs
        /\ inferred' = inferColumnType(vs)
    /\ pc' = "inferred"
    /\ UNCHANGED <<chartVars, csvVars, delimVars, pageVars>>

NextInfer == InferColumnType

SpecInfer == Init /\ [][NextInfer]_vars

SampleChars == {",", ";", "\t", "|", "a"}

\* One call detectDelimiter(sample).
DetectDelimiter ==
    /\ pc = "idle"
    /\ \E smp \in SeqsUpTo(SampleChars, MaxSampleText) :
        /\ sample' = smp
        /\ detected' = detectDelimiter(smp)
    /\ pc' = "detected"
    /\ UNCHANGED <<chartVars, csvVars, inferVars, pageVars>>

NextDelim == DetectDelimiter

SpecDelim == Init /\ [][NextDelim]_vars

(***************************************************************************)
(* Claims about parseCSV, checked under SpecCsv.                           *)
(***************************************************************************)
\* C7: a text that parses to zero rows, the empty text among them, gives
\* the empty dataset, for every delimiter setting, hasHeader and
\* skipEmptyLines.
C7_ZeroRowsGiveEmptyDataset ==
    pc = "parsed" =>
        /\ content = <<>> => allRows = <<>>
        /\ allRows = <<>> =>
             /\ parsed.headers = <<>>
             /\ parsed.rows = <<>>
             /\ parsed.columns = <<>>
             /\ parsed.rowCount = 0

C7_Witness ==
    /\ pc = "parsed"
    /\ content = <<"\n", "\n">>
    /\ settings.skipEmptyLines
    /\ ~settings.hasHeader
    /\ settings.delimiter = <<>>
    /\ allRows = <<>>
    /\ parsed = emptyData

\* C8 as claimed: the row parser's row count is rowCount when hasHeader is
\* false and rowCount + 1 when hasHeader is true, for every text.
C8_RowCountPlusHeader ==
    pc = "parsed" =>
        Len(allRows) = parsed.rowCount + (IF settings.hasHeader THEN 1 ELSE 0)

\* C8 amended: that equation holds whenever the row parser produced at
\* least one row; when it produced none, rowCount is 0 with either value of
\* hasHeader.
C8_RowCountPlusHeaderUnlessEmpty ==
    pc = "parsed" =>
        /\ Len(allRows) > 0 =>
             Len(allRows) =
                parsed.rowCount + (IF settings.hasHeader THEN 1 ELSE 0)
        /\ Len(allRows) = 0 => parsed.rowCount = 0

C8_Witness ==
    /\ pc = "parsed"
    /\ settings.hasHeader
    /\ Len(allRows) = 3
    /\ parsed.rowCount = 2
    /\ Len(parsed.rows) = 2

\* C11: every row of the dataset parseCSV returns has exactly as many cells
\* as there are headers: no row is shorter and no row is longer.
C11_RowsHaveHeaderLength ==
    pc = "parsed" =>
        \A r \in 1..Len(parsed.rows) :
            Len(parsed.rows[r]) = Len(parsed.headers)

\* C13: no two column descriptors of the dataset parseCSV returns have the
\* same name, header cells read from the text and "Column N" placeholders
\* alike.
C13_ColumnNamesUnique ==
    pc = "parsed" =>
        \A i, j \in 1..Len(parsed.columns) :
            i # j => parsed.columns[i].name # parsed.columns[j].name

\* C14: with hasHeader, column i is named by the trimmed i-th cell of the
\* first parsed row, or "Column i" (1-based) when that cell is blank, and the
\* data rows are the parsed rows after the first; without hasHeader every
\* column i is named "Column i" and the data rows are all the parsed rows.
C14_HeaderRowNamesColumns ==
    (pc = "parsed" /\ allRows # <<>>) =>
        /\ Len(parsed.headers) = Len(allRows[1])
        /\ Len(parsed.columns) = Len(allRows[1])
        /\ \A i \in 1..Len(allRows[1]) :
              /\ parsed.columns[i].name = parsed.headers[i]
              /\ (settings.hasHeader /\ trim(allRows[1][i]) # <<>>) =>
                    parsed.headers[i] = trim(allRows[1][i])
              /\ (settings.hasHeader /\ trim(allRows[1][i]) = <<>>) =>
                    parsed.headers[i] = <<"C", "o", "l", "u", "m", "n", " ">>
                                            \o decimal(i)
              /\ ~settings.hasHeader =>
                    parsed.headers[i] = <<"C", "o", "l", "u", "m", "n", " ">>
                                            \o decimal(i)
        /\ settings.hasHeader => parsed.rows = Tail(allRows)
        /\ ~settings.hasHeader => parsed.rows = allRows

C14_Witness ==
    /\ pc = "parsed"
    /\ settings.hasHeader
    /\ settings.delimiter = <<>>
    /\ content = <<" ", "a", ",">>
    /\ allRows = << << <<" ", "a">>, <<>> >> >>
    /\ parsed.headers = << <<"a">>, <<"C", "o", "l", "u", "m", "n", " ", "2">> >>
    /\ parsed.rows = <<>>
    /\ parsed.rowCount = 0

(***************************************************************************)
(* Claims about inferColumnType, checked under SpecInfer.                  *)
(***************************************************************************)
\* The non-blank values among the first 100.
Sampled ==
    {i \in 1..Min(Len(values), MaxSample) : trim(values[i]) # <<>>}

\* C9: the inferred type is one of boolean, number, date, string, the first
\* of boolean, number, date whose rule every sampled value satisfies, and
\* string when none does or when nothing is sampled; the column
\* ["0", "1", "0"] is boolean.
C9_TypePrecedence ==
    pc = "inferred" =>
        /\ inferred \in {"boolean", "number", "date", "string"}
        /\ inferred = "boolean" <=>
             (Sampled # {} /\ (\A i \in Sampled : isBoolValue(values[i])))
        /\ inferred = "number" <=>
             (Sampled # {} /\ ~(\A i \in Sampled : isBoolValue(values[i]))
              /\ (\A i \in Sampled : isNumberValue(values[i])))
        /\ inferred = "date" <=>
             (Sampled # {} /\ ~(\A i \in Sampled : isBoolValue(values[i]))
              /\ ~(\A i \in Sampled : isNumberValue(values[i])) /\ (\A i \in Sampled : isDateValue(values[i])))
        /\ values = << <<"0">>, <<"1">>, <<"0">> >> => inferred = "boolean"

C9_Witness ==
    /\ pc = "inferred"
    /\ values = << <<"0">>, <<"1">>, <<"0">> >>
    /\ (\A i \in Sampled : isNumberValue(values[i]))
    /\ inferred = "boolean"

(***************************************************************************)
(* Claims about detectDelimiter, checked under SpecDelim.                  *)
(***************************************************************************)
Occurrences(d) == Cardinality({i \in 1..Len(sample) : sample[i] = d})

Candidates == {",", ";", "\t", "|"}

\* C10: the delimiter returned is one of the four candidates, none of which
\* occurs more often in the sample, and it is the comma when none of them
\* occurs.
C10_MostFrequentDelimiter ==
    pc = "detected" =>
        /\ detected \in Candidates
        /\ \A d \in Candidates : Occurrences(d) <= Occurrences(detected)
        /\ (\A d \in Candidates : Occurrences(d) = 0) => detected = ","

C10_Witness ==
    /\ pc = "detected"
    /\ sample = <<"a", ";", "|", ";">>
    /\ detected = ";"

(***************************************************************************)
(* The sample datasets (sample-data.ts).                                   *)
(*                                                                         *)
(* Math.random() is an input.  It is modelled by two outcomes, 0 and 3/4,  *)
(* counted in quarters; the n-th call of one generation returns the one or *)
(* the other in turn, starting from an outcome the caller draws (seed).    *)
(***************************************************************************)
Seeds == {0, 1}

\* Math.random() at the n-th call, in quarters.
random(seed, n) == IF (seed + n) % 2 = 0 THEN 0 ELSE 3

\* Math.floor(Math.random() * (max - min + 1)) + min
randomInt(min, max, q) == ((q * (max - min + 1)) \div 4) + min

\* arr[Math.floor(Math.random() * arr.length)]
randomChoice(arr, q) == arr[((q * Len(arr)) \div 4) + 1]

\* String(n) for an integer n >= 0
String(n) == decimal(n)

\* String(n).padStart(2, "0")
padStart2(n) == IF n < 10 THEN <<"0">> \o decimal(n) ELSE decimal(n)

\* randomDate(year): `${year}-${month}-${day}`, month drawn before day.
randomDate(year, qMonth, qDay) ==
    decimal(year) \o <<"-">> \o padStart2(randomInt(1, 12, qMonth))
        \o <<"-">> \o padStart2(randomInt(1, 28, qDay))

SALES_REGIONS ==
    << <<"N", "o", "r", "t", "h">>,
       <<"S", "o", "u", "t", "h">>,
       <<"E", "a", "s", "t">>,
       <<"W", "e", "s", "t">>,
       <<"C", "e", "n", "t", "r", "a", "l">> >>

PRODUCTS ==
    << <<"L", "a", "p", "t", "o", "p">>,
       <<"P", "h", "o", "n", "e">>,
       <<"T", "a", "b", "l", "e", "t">>,
       <<"M", "o", "n", "i", "t", "o", "r">>,
       <<"K", "e", "y", "b", "o", "a", "r", "d">>,
       <<"M", "o", "u", "s", "e">>,
       <<"H", "e", "a", "d", "p", "h", "o", "n", "e", "s">> >>

CATEGORIES ==
    << <<"E", "l", "e", "c", "t", "r", "o", "n", "i", "c", "s">>,
       <<"A", "c", "c", "e", "s", "s", "o", "r", "i", "e", "s">>,
       <<"S", "o", "f", "t", "w", "a", "r", "e">>,
       <<"S", "e", "r", "v", "i", "c", "e", "s">> >>

salesHeaders ==
    << <<"D", "a", "t", "e">>,
       <<"R", "e", "g", "i", "o", "n">>,
       <<"P", "r", "o", "d", "u", "c", "t">>,
       <<"C", "a", "t", "e", "g", "o", "r", "y">>,
       <<"Q", "u", "a", "n", "t", "i", "t", "y">>,
       <<"U", "n", "i", "t", "P", "r", "i", "c", "e">>,
       <<"R", "e", "v", "e", "n", "u", "e">> >>

SalesRows == 100

\* The i-th pass (from 0) of generateSalesDataset's loop: seven calls of
\* Math.random, quantity and unitPrice first.
salesRow(seed, i) ==
    LET q(k) == random(seed, 7 * i + k)
        quantity == randomInt(1, 50, q(1))
        unitPrice == randomInt(50, 2000, q(2))
        revenue == quantity * unitPrice
    IN  << randomDate(2024, q(3), q(4)),
           randomChoice(SALES_REGIONS, q(5)),
           randomChoice(PRODUCTS, q(6)),
           randomChoice(CATEGORIES, q(7)),
           String(quantity), String(unitPrice), String(revenue) >>

generateSalesDataset(seed) ==
    [name |-> "Sales Data 2024",
     headers |-> salesHeaders,
     rows |-> [i \in 1..SalesRows |-> salesRow(seed, i - 1)]]

departments ==
    << <<"E", "n", "g", "i", "n", "e", "e", "r", "i", "n", "g">>,
       <<"S", "a", "l", "e", "s">>,
       <<"M", "a", "r", "k", "e", "t", "i", "n", "g">>,
       <<"H", "R">>,
       <<"F", "i", "n", "a", "n", "c", "e">>,
       <<"O", "p", "e", "r", "a", "t", "i", "o", "n", "s">> >>

employeeHeaders ==
    << <<"E", "m", "p", "l", "o", "y", "e", "e", "I", "D">>,
       <<"D", "e", "p", "a", "r", "t", "m", "e", "n", "t">>,
       <<"S", "a", "l", "a", "r", "y">>,
       <<"Y", "e", "a", "r", "s", "E", "x", "p", "e", "r", "i", "e", "n", "c", "e">>,
       <<"P", "e", "r", "f", "o", "r", "m", "a", "n", "c", "e", "S", "c", "o", "r", "e">>,
       <<"R", "e", "m", "o", "t", "e">> >>

EmployeeRows == 80

\* The i-th pass (from 0) of generateEmployeeDataset's loop: five calls of
\* Math.random.  `EMP${String(1000 + i).padStart(4, "0")}`: 1000 + i has
\* four digits already.
employeeRow(seed, i) ==
    LET q(k) == random(seed, 5 * i + k)
        yearsExp == randomInt(1, 20, q(1))
        baseSalary == 40000 + yearsExp * 5000 + randomInt(-10000, 10000, q(2))
    IN  << <<"E", "M", "P">> \o String(1000 + i),
           randomChoice(departments, q(3)),
           String(baseSalary),
           String(yearsExp),
           String(randomInt(1, 5, q(4))),
           IF q(5) > 2 THEN <<"Y", "e", "s">> ELSE <<"N", "o">> >>

generateEmployeeDataset(seed) ==
    [name |-> "Employee Data",
     headers |-> employeeHeaders,
     rows |-> [i \in 1..EmployeeRows |-> employeeRow(seed, i - 1)]]

sources ==
    << <<"O", "r", "g", "a", "n", "i", "c">>,
       <<"D", "i", "r", "e", "c", "t">>,
       <<"S", "o", "c", "i", "a", "l">>,
       <<"R", "e", "f", "e", "r", "r", "a", "l">>,
       <<"E", "m", "a", "i", "l">>,
       <<"P", "a", "i", "d">> >>

trafficHeaders ==
    << <<"D", "a", "t", "e">>,
       <<"P", "a", "g", "e", "V", "i", "e", "w", "s">>,
       <<"U", "n", "i", "q", "u", "e", "V", "i", "s", "i", "t", "o", "r", "s">>,
       <<"B", "o", "u", "n", "c", "e", "R", "a", "t", "e">>,
       <<"A", "v", "g", "S", "e", "s", "s", "i", "o", "n", "D", "u", "r", "a", "t", "i", "o", "n">>,
       <<"S", "o", "u", "r", "c", "e">> >>

TrafficRows == 90

\* The i-th pass (from 0) of generateWebTrafficDataset's loop: seven calls of
\* Math.random.  Math.floor(pageViews * (0.3 + r * 0.4)) is a tenth of
\* pageViews * (3 + r * 4), and (30 + r * 40).toFixed(1) has the fraction
\* digit 0 for both outcomes of r.
trafficRow(seed, i) ==
    LET q(k) == random(seed, 7 * i + k)
        pageViews == randomInt(1000, 50000, q(1))
        uniqueVisitors == (pageViews * (3 + q(2))) \div 10
    IN  << randomDate(2024, q(3), q(4)),
           String(pageViews),
           String(uniqueVisitors),
           String(30 + q(5) * 10) \o <<".", "0">>,
           String(randomInt(60, 300, q(6))),
           randomChoice(sources, q(7)) >>

generateWebTrafficDataset(seed) ==
    [name |-> "Web Traffic Analytics",
     headers |-> trafficHeaders,
     rows |-> [i \in 1..TrafficRows |-> trafficRow(seed, i - 1)]]

\* The ids of SAMPLE_DATASETS.
SAMPLE_DATASETS == {"sales", "employees", "traffic"}

\* SAMPLE_DATASETS.find(d => d.id === id), then its generator: <<>> stands
\* for null.
generateDatasetById(id, seed) ==
    CASE id = "sales" -> <<generateSalesDataset(seed)>>
      [] id = "employees" -> <<generateEmployeeDataset(seed)>>
      [] id = "traffic" -> <<generateWebTrafficDataset(seed)>>
      [] OTHER -> <<>>

(***************************************************************************)
(* The page: HomePage and ChartSuggestions (AIAnalysis.tsx), FileUpload    *)
(* and the CSV settings dialog, SingleChart (ChartDisplay.tsx).  A handler *)
(* is one action, together with the effects React runs after it.           *)
(***************************************************************************)
MaxNow == 1          \* reads of Date.now() that produce a chart id
MaxSuggestions == 2  \* charts held in the suggestions of ChartSuggestions
MaxCharts == 2       \* charts in one answer of the AI collaborator

DEFAULT_CSV_SETTINGS ==
    [delimiter |-> <<>>, hasHeader |-> TRUE, skipEmptyLines |-> TRUE]

\* The settings the CSV settings dialog saves.
PageSettings ==
    { DEFAULT_CSV_SETTINGS,
      [DEFAULT_CSV_SETTINGS EXCEPT !.delimiter = <<";">>],
      [DEFAULT_CSV_SETTINGS EXCEPT !.hasHeader = FALSE] }

\* Files the user holds: the sum example, a file whose x key holds a comma,
\* and a file whose first column name holds a comma.
FileNames == {"data.csv"}
FileContents ==
    { <<"K", ",", "v", "\n", "A", ",", "1", "0", "\n", "B", ",", "5", "\n",
      "A", ",", "3">>,
      <<"K", ";", "v", "\n", "a", ",", "b", ";", "5">>,
      <<"a", ",", "b", ";", "v", "\n", "A", ";", "5">> }

\* The limits SingleChart offers.
DefaultLimit == 20
LimitChoices == {10, 20, 999999}

\* The dataset object d after processChartData(d, c, order, lim) returned
\* with the rows slice took spliced out of d.rows.
dataAfterProcessChartDataSplice(d, c, order, lim) ==
    IF c.aggregation = "none"
    THEN [d EXCEPT !.rows = SubSeq(d.rows, Min(lim * 2, Len(d.rows)) + 1,
                                   Len(d.rows))]
    ELSE d

\* The dataset object d after processChartData(d, c, order, lim) returned.
\* The function reads data.columns and data.rows; it writes its locals
\* groups and result only: forEach and find read, slice copies the rows it
\* takes, and sort and the last slice act on result.
dataAfterProcessChartData(d, c, order, lim) == d

\* The dataset object d after generateDataSummary(d) returned: map, filter
\* and slice build new arrays, and the lines are pushed to the local summary.
dataAfterGenerateDataSummary(d) == d

\* handleLoadSample's conversion of a SampleDataset to CSVData.
sampleToCSVData(dataset) ==
    [headers |-> dataset.headers,
     rows |-> dataset.rows,
     columns |-> [i \in 1..Len(dataset.headers) |->
                    [name |-> dataset.headers[i], type |-> "string",
                     index |-> i - 1]],
     rowCount |-> Len(dataset.rows)]

\* `chart-${i}-${Date.now()}` and `chart-manual-${Date.now()}`
aiChartId(i, t) ==
    <<"c", "h", "a", "r", "t", "-">> \o decimal(i) \o <<"-">> \o decimal(t)
manualChartId(t) ==
    <<"c", "h", "a", "r", "t", "-", "m", "a", "n", "u", "a", "l", "-">>
    \o decimal(t)

\* headers.includes(name)
includes(headers, name) == \E i \in 1..Len(headers) : headers[i] = name

\* The filter of handleGenerate: both axes are headers, letter for letter.
validCharts(charts, headers) ==
    SelectSeq(charts, LAMBDA c : includes(headers, c.xAxis)
                                 /\ includes(headers, c.yAxis))

\* The auto-apply effect of ChartSuggestions, run after suggestions or
\* selectedCharts changed: what generatedCharts holds after it.
autoApply(sugs, sel, charts) ==
    IF Len(sugs) > 0 THEN SelectSeq(sugs, LAMBDA c : c.id \in sel)
    ELSE charts

\* The SingleChart the model follows is the one keyed by chart.id; noView
\* when none is followed.
noView ==
    [data |-> emptyData, chart |-> noChart, sortOrder |-> "none", limit |-> 0,
     processedData |-> <<>>]

\* That SingleChart after a render with the charts cs displayed: it lives
\* on, with its state and the value of its useMemo, while a chart of its key
\* is displayed.
viewAfter(cs) ==
    IF chart # noChart /\ \E i \in 1..Len(cs) : cs[i].id = chart.id
    THEN [data |-> data, chart |-> chart, sortOrder |-> sortOrder,
          limit |-> limit, processedData |-> processedData]
    ELSE noView

\* Column names the AI collaborator answers with for the headers it was
\* given: as x the first header, also in lower case; as y the last header,
\* or a name that is no header.
noColumn == <<"n", "o", "n", "e">>
aiXColumns(headers) ==
    IF headers = <<>> THEN {noColumn}
    ELSE {headers[1], toLowerCase(headers[1])}
aiYColumns(headers) ==
    IF headers = <<>> THEN {noColumn}
    ELSE {headers[Len(headers)], noColumn}

\* object.charts of one answer.
aiAnswers(headers) ==
    SeqsUpTo([xColumn : aiXColumns(headers), yColumn : aiYColumns(headers),
              aggregation : {"sum", "count"}], MaxCharts)

\* generateChartSuggestions' mapping of an answer to ChartSuggestions.
toSuggestions(answer, t) ==
    [i \in 1..Len(answer) |->
        [id |-> aiChartId(i - 1, t), xAxis |-> answer[i].xColumn,
         yAxis |-> answer[i].yColumn, aggregation |-> answer[i].aggregation]]

\* The forms the manual chart dialog submits for the headers shown: the
\* first header as x, the last or none as y.
manualConfigs(headers) ==
    IF headers = <<>> THEN {}
    ELSE {m \in [xColumn : {headers[1]},
                 yColumn : {<<>>, headers[Len(headers)]},
                 aggregation : {"sum", "count", "none"}] :
             m.aggregation # "count" => m.yColumn # <<>>}

\* String(v) for a number of h hundredths.
numberToString(h) ==
    LET m == IF h < 0 THEN 0 - h ELSE h
        f == m % 100
    IN  (IF h < 0 THEN <<"-">> ELSE <<>>) \o decimal(m \div 100)
        \o (IF f = 0 THEN <<>>
            ELSE IF f % 10 = 0 THEN <<".">> \o decimal(f \div 10)
            ELSE <<".">> \o twoDigits(f))

\* String(v) for a property of a ChartDataPoint.
valueString(v) == IF v.t = "str" THEN v.s ELSE numberToString(v.n)

\* The text handleExportCSV builds from a non-empty processedData.
exportCSV(points) ==
    LET headers == join([i \in 1..Len(points[1]) |-> points[1][i].k], <<",">>)
        line(p) == join([i \in 1..Len(p) |->
                            <<"\"">> \o valueString(p[i].v) \o <<"\"">>],
                        <<",">>)
        rows == join([r \in 1..Len(points) |-> line(points[r])], <<"\n">>)
    IN  headers \o <<"\n">> \o rows

\* The "Load Sample Data" button, rendered while no dataset is loaded.
ToggleSampleDropdown ==
    /\ pc \in {"idle", "page"}
    /\ csvData = <<>>
    /\ showSampleDropdown' = ~showSampleDropdown
    /\ pc' = "page"
    /\ UNCHANGED storeVars
    /\ UNCHANGED analysisVars
    /\ UNCHANGED <<csvData, csvSettings, currentFileName, generatedCharts,
                   analysisResults, apiSettings>>
    /\ UNCHANGED <<suggestVars, reading, now, download>>
    /\ UNCHANGED <<chartVars, csvVars, inferVars, delimVars>>

\* handleLoadSample(datasetId), from an entry of the open dropdown.
\* ChartSuggestions is mounted with its initial state, which suggestVars
\* hold while it is unmounted.
HandleLoadSample ==
    /\ pc \in {"idle", "page"}
    /\ csvData = <<>>
    /\ showSampleDropdown
    /\ \E datasetId \in SAMPLE_DATASETS, seed \in Seeds :
        LET dataset == generateDatasetById(datasetId, seed)
        IN  IF dataset = <<>>
            THEN UNCHANGED <<csvData, currentFileName, generatedCharts,
                             analysisResults, showSampleDropdown>>
            ELSE /\ csvData' = <<sampleToCSVData(dataset[1])>>
                 /\ currentFileName' = <<dataset[1].name>>
                 /\ generatedCharts' = <<>>
                 /\ analysisResults' = noResults
                 /\ showSampleDropdown' = FALSE
    /\ pc' = "page"
    /\ UNCHANGED storeVars
    /\ UNCHANGED analysisVars
    /\ UNCHANGED <<csvSettings, apiSettings>>
    /\ UNCHANGED <<suggestVars, reading, now, download>>
    /\ UNCHANGED <<chartVars, csvVars, inferVars, delimVars>>

\* handleClearFile, FileUpload's onClear: its button is rendered while a file
\* name is set.  ChartSuggestions and ChartDisplay are unmounted: their
\* state is dropped, and an answer to a request of the unmounted component
\* sets no state.
HandleClearFile ==
    /\ pc \in {"idle", "page"}
    /\ currentFileName # <<>>
    /\ csvData' = <<>>
    /\ currentFileName' = <<>>
    /\ generatedCharts' = <<>>
    /\ analysisResults' = noResults
    /\ isLoading' = FALSE
    /\ error' = <<>>
    /\ suggestions' = <<>>
    /\ selectedCharts' = {}
    /\ request' = <<>>
    /\ received' = <<>>
    /\ data' = noView.data
    /\ chart' = noView.chart
    /\ sortOrder' = noView.sortOrder
    /\ limit' = noView.limit
    /\ processedData' = noView.processedData
    /\ pc' = "page"
    /\ UNCHANGED storeVars
    /\ UNCHANGED analysisVars
    /\ UNCHANGED <<csvSettings, showSampleDropdown, apiSettings>>
    /\ UNCHANGED <<reading, now, download>>
    /\ UNCHANGED <<csvVars, inferVars, delimVars>>

\* handleSave of the CSV settings dialog: onSettingsChange(localSettings).
HandleSave ==
    /\ pc \in {"idle", "page"}
    /\ \E st \in PageSettings : csvSettings' = st
    /\ pc' = "page"
    /\ UNCHANGED storeVars
    /\ UNCHANGED analysisVars
    /\ UNCHANGED <<csvData, currentFileName, generatedCharts, analysisResults,
                   showSampleDropdown, apiSettings>>
    /\ UNCHANGED <<suggestVars, reading, now, download>>
    /\ UNCHANGED <<chartVars, csvVars, inferVars, delimVars>>

\* APIKeyButton's onSettingsChange: settings with a key, or null.
SetApiSettings ==
    /\ pc \in {"idle", "page"}
    /\ \E st \in {<<>>, <<[apiKey |-> "key"]>>} : apiSettings' = st
    /\ pc' = "page"
    /\ UNCHANGED storeVars
    /\ UNCHANGED analysisVars
    /\ UNCHANGED <<csvData, csvSettings, currentFileName, generatedCharts,
                   analysisResults, showSampleDropdown>>
    /\ UNCHANGED <<suggestVars, reading, now, download>>
    /\ UNCHANGED <<chartVars, csvVars, inferVars, delimVars>>

\* FileUpload.handleFile(file) for a .csv file, from the upload area, which
\* is rendered while no file name is set: reader.readAsText(file).  The
\* callback the reader will call is the handleFileLoaded of this render, with
\* its csvSettings.  The file is one the user holds or the one last
\* downloaded; one read is in flight at a time.
HandleFile ==
    /\ pc \in {"idle", "page"}
    /\ currentFileName = <<>>
    /\ reading = <<>>
    /\ \E name \in FileNames,
          text \in FileContents
                   \cup {download[i].content : i \in 1..Len(download)} :
        reading' = <<[name |-> name, content |-> text,
                      settings |-> csvSettings]>>
    /\ pc' = "page"
    /\ UNCHANGED storeVars
    /\ UNCHANGED analysisVars
    /\ UNCHANGED <<homeVars, suggestVars, now, download>>
    /\ UNCHANGED <<chartVars, csvVars, inferVars, delimVars>>

\* reader.onload: handleFileLoaded(content, file.name).  A mounted
\* ChartSuggestions keeps its state; ChartDisplay is unmounted, since no
\* chart is displayed.
ReaderOnLoad ==
    /\ pc \in {"idle", "page"}
    /\ reading # <<>>
    /\ LET file == reading[1]
       IN  /\ content' = file.content
           /\ settings' = file.settings
           /\ allRows' = allRowsOf(file.content, file.settings)
           /\ parsed' = parseCSV(file.content, file.settings)
           /\ csvData' = <<parseCSV(file.content, file.settings)>>
           /\ currentFileName' = <<file.name>>
    /\ generatedCharts' = <<>>
    /\ analysisResults' = noResults
    /\ reading' = <<>>
    /\ data' = noView.data
    /\ chart' = noView.chart
    /\ sortOrder' = noView.sortOrder
    /\ limit' = noView.limit
    /\ processedData' = noView.processedData
    /\ pc' = "page"
    /\ UNCHANGED storeVars
    /\ UNCHANGED analysisVars
    /\ UNCHANGED <<csvSettings, showSampleDropdown, apiSettings>>
    /\ UNCHANGED <<suggestVars, now, download>>
    /\ UNCHANGED <<inferVars, delimVars>>

\* ChartSuggestions.handleGenerate up to its await: without an API key the
\* error is set; else the summary of the dataset is built and
\* generateChartSuggestions is called.  Its buttons are disabled while
\* loading and while the page runs the complete analysis, and the first
\* one, shown while there is no suggestion, also without an API key.
HandleGenerate ==
    /\ pc \in {"idle", "page"}
    /\ csvData # <<>>
    /\ ~isLoading
    /\ ~isAnalyzingAll
    /\ suggestions = <<>> => apiSettings # <<>>
    /\ IF apiSettings = <<>>
       THEN /\ error' = <<"Please configure your API key first">>
            /\ UNCHANGED <<isLoading, request, csvData, data>>
       ELSE /\ isLoading' = TRUE
            /\ error' = <<>>
            /\ request' = <<[dataSummary |-> generateDataSummary(csvData[1]),
                             headers |-> csvData[1].headers]>>
            /\ csvData' = <<dataAfterGenerateDataSummary(csvData[1])>>
            /\ data' = IF chart # noChart THEN csvData'[1] ELSE data
    /\ pc' = "page"
    /\ UNCHANGED storeVars
    /\ UNCHANGED analysisVars
    /\ UNCHANGED <<suggestions, selectedCharts, received>>
    /\ UNCHANGED <<homeOther, reading, now, download>>
    /\ UNCHANGED <<chart, sortOrder, limit, processedData>>
    /\ UNCHANGED <<csvVars, inferVars, delimVars>>

\* generateChartSuggestions resolves: the rest of handleGenerate's try, its
\* finally, and the auto-apply effect.  data is the dataset of the render
\* handleGenerate was called in.
GenerateResolved ==
    /\ pc \in {"idle", "page"}
    /\ request # <<>>
    /\ now < MaxNow
    /\ \E answer \in aiAnswers(request[1].headers) :
        LET charts == toSuggestions(answer, now)
            valid == validCharts(charts, request[1].headers)
        IN  /\ received' = charts
            /\ suggestions' = valid
            /\ selectedCharts' = {valid[i].id : i \in 1..Len(valid)}
    /\ isLoading' = FALSE
    /\ request' = <<>>
    /\ now' = now + 1
    /\ generatedCharts' = autoApply(suggestions', selectedCharts',
                                    generatedCharts)
    /\ LET v == viewAfter(generatedCharts')
       IN  /\ data' = v.data
           /\ chart' = v.chart
           /\ sortOrder' = v.sortOrder
           /\ limit' = v.limit
           /\ processedData' = v.processedData
    /\ pc' = "page"
    /\ UNCHANGED storeVars
    /\ UNCHANGED analysisVars
    /\ UNCHANGED error
    /\ UNCHANGED <<csvData, csvSettings, currentFileName, analysisResults,
                   showSampleDropdown, apiSettings>>
    /\ UNCHANGED <<reading, download>>
    /\ UNCHANGED <<csvVars, inferVars, delimVars>>

\* generateChartSuggestions rejects: handleGenerate's catch and finally.
GenerateRejected ==
    /\ pc \in {"idle", "page"}
    /\ request # <<>>
    /\ error' = <<"Error generating charts">>
    /\ isLoading' = FALSE
    /\ request' = <<>>
    /\ pc' = "page"
    /\ UNCHANGED storeVars
    /\ UNCHANGED analysisVars
    /\ UNCHANGED <<suggestions, selectedCharts, received>>
    /\ UNCHANGED <<homeVars, reading, now, download>>
    /\ UNCHANGED <<chartVars, csvVars, inferVars, delimVars>>

\* ChartSuggestions.handleManualCreate with a form its button accepts, and
\* the auto-apply effect.
HandleManualCreate ==
    /\ pc \in {"idle", "page"}
    /\ csvData # <<>>
    /\ now < MaxNow
    /\ Len(suggestions) < MaxSuggestions
    /\ \E manualConfig \in manualConfigs(csvData[1].headers) :
        LET yColumn == IF manualConfig.aggregation = "count"
                          /\ manualConfig.yColumn = <<>>
                       THEN manualConfig.xColumn
                       ELSE manualConfig.yColumn
            newChart == [id |-> manualChartId(now),
                         xAxis |-> manualConfig.xColumn,
                         yAxis |-> yColumn,
                         aggregation |-> manualConfig.aggregation]
        IN  /\ suggestions' = Append(suggestions, newChart)
            /\ selectedCharts' = selectedCharts \cup {newChart.id}
    /\ now' = now + 1
    /\ generatedCharts' = autoApply(suggestions', selectedCharts',
                                    generatedCharts)
    /\ LET v == viewAfter(generatedCharts')
       IN  /\ data' = v.data
           /\ chart' = v.chart
           /\ sortOrder' = v.sortOrder
           /\ limit' = v.limit
           /\ processedData' = v.processedData
    /\ pc' = "page"
    /\ UNCHANGED storeVars
    /\ UNCHANGED analysisVars
    /\ UNCHANGED <<isLoading, error, request, received>>
    /\ UNCHANGED <<csvData, csvSettings, currentFileName, analysisResults,
                   showSampleDropdown, apiSettings>>
    /\ UNCHANGED <<reading, download>>
    /\ UNCHANGED <<csvVars, inferVars, delimVars>>

\* ChartSuggestions.toggleChart(chartId) on a suggestion card, and the
\* auto-apply effect.
ToggleChart ==
    /\ pc \in {"idle", "page"}
    /\ csvData # <<>>
    /\ \E i \in 1..Len(suggestions) :
        LET chartId == suggestions[i].id
        IN  selectedCharts' = IF chartId \in selectedCharts
                              THEN selectedCharts \ {chartId}
                              ELSE selectedCharts \cup {chartId}
    /\ generatedCharts' = autoApply(suggestions, selectedCharts',
                                    generatedCharts)
    /\ LET v == viewAfter(generatedCharts')
       IN  /\ data' = v.data
           /\ chart' = v.chart
           /\ sortOrder' = v.sortOrder
           /\ limit' = v.limit
           /\ processedData' = v.processedData
    /\ pc' = "page"
    /\ UNCHANGED storeVars
    /\ UNCHANGED analysisVars
    /\ UNCHANGED <<isLoading, error, suggestions, request, received>>
    /\ UNCHANGED <<csvData, csvSettings, currentFileName, analysisResults,
                   showSampleDropdown, apiSettings>>
    /\ UNCHANGED <<reading, now, download>>
    /\ UNCHANGED <<csvVars, inferVars, delimVars>>

\* ChartSuggestions.removeChart(chartId) on a suggestion card, and the
\* auto-apply effect.
RemoveChart ==
    /\ pc \in {"idle", "page"}
    /\ csvData # <<>>
    /\ \E i \in 1..Len(suggestions) :
        LET chartId == suggestions[i].id
        IN  /\ suggestions' = SelectSeq(suggestions,
                                        LAMBDA c : c.id # chartId)
            /\ selectedCharts' = selectedCharts \ {chartId}
    /\ generatedCharts' = autoApply(suggestions', selectedCharts',
                                    generatedCharts)
    /\ LET v == viewAfter(generatedCharts')
       IN  /\ data' = v.data
           /\ chart' = v.chart
           /\ sortOrder' = v.sortOrder
           /\ limit' = v.limit
           /\ processedData' = v.processedData
    /\ pc' = "page"
    /\ UNCHANGED storeVars
    /\ UNCHANGED analysisVars
    /\ UNCHANGED <<isLoading, error, request, received>>
    /\ UNCHANGED <<csvData, csvSettings, currentFileName, analysisResults,
                   showSampleDropdown, apiSettings>>
    /\ UNCHANGED <<reading, now, download>>
    /\ UNCHANGED <<csvVars, inferVars, delimVars>>

\* The SingleChart of one displayed chart, from its mount: its initial state
\* and the first processChartData of its useMemo.  The model follows it from
\* here on.  Its data prop is the dataset object of the page.
SingleChart ==
    /\ pc \in {"idle", "page"}
    /\ csvData # <<>>
    /\ chart = noChart
    /\ \E i \in 1..Len(generatedCharts) :
        /\ chart' = generatedCharts[i]
        /\ processedData' = processChartData(csvData[1], generatedCharts[i],
                                             "none", DefaultLimit)
        /\ data' = dataAfterProcessChartData(csvData[1], generatedCharts[i],
                                             "none", DefaultLimit)
    /\ csvData' = <<data'>>
    /\ sortOrder' = "none"
    /\ limit' = DefaultLimit
    /\ pc' = "page"
    /\ UNCHANGED storeVars
    /\ UNCHANGED analysisVars
    /\ UNCHANGED <<homeOther, suggestVars, reading, now, download>>
    /\ UNCHANGED <<csvVars, inferVars, delimVars>>

\* SingleChart.toggleSort, and the useMemo of the next render.
ToggleSort ==
    /\ pc \in {"idle", "page"}
    /\ chart # noChart
    /\ sortOrder' = CASE sortOrder = "none" -> "desc"
                      [] sortOrder = "desc" -> "asc"
                      [] OTHER -> "none"
    /\ processedData' = processChartData(data, chart, sortOrder', limit)
    /\ data' = dataAfterProcessChartData(data, chart, sortOrder', limit)
    /\ csvData' = <<data'>>
    /\ pc' = "page"
    /\ UNCHANGED storeVars
    /\ UNCHANGED analysisVars
    /\ UNCHANGED <<chart, limit>>
    /\ UNCHANGED <<homeOther, suggestVars, reading, now, download>>
    /\ UNCHANGED <<csvVars, inferVars, delimVars>>

\* SingleChart's limit select: setLimitResults(Number(e.target.value)), and
\* the useMemo of the next render, which runs when the limit changed.
SetLimitResults ==
    /\ pc \in {"idle", "page"}
    /\ chart # noChart
    /\ \E l \in LimitChoices \ {limit} :
        /\ limit' = l
        /\ processedData' = processChartData(data, chart, sortOrder, l)
        /\ data' = dataAfterProcessChartData(data, chart, sortOrder, l)
    /\ csvData' = <<data'>>
    /\ pc' = "page"
    /\ UNCHANGED storeVars
    /\ UNCHANGED analysisVars
    /\ UNCHANGED <<chart, sortOrder>>
    /\ UNCHANGED <<homeOther, suggestVars, reading, now, download>>
    /\ UNCHANGED <<csvVars, inferVars, delimVars>>

\* SingleChart.handleExportCSV: nothing for an empty processedData, else the
\* text is handed to the browser as a download.  Beside the text, download
\* records what was exported: the points, and the configuration the dataset
\* was parsed with when it is the result of the last parseCSV.
HandleExportCSV ==
    /\ pc \in {"idle", "page"}
    /\ chart # noChart
    /\ IF Len(processedData) = 0
       THEN UNCHANGED download
       ELSE download' = <<[content |-> exportCSV(processedData),
                           points |-> processedData,
                           configuration |-> IF data = parsed
                                             THEN <<settings>> ELSE <<>>]>>
    /\ pc' = "page"
    /\ UNCHANGED storeVars
    /\ UNCHANGED analysisVars
    /\ UNCHANGED <<homeVars, suggestVars, reading, now>>
    /\ UNCHANGED <<chartVars, csvVars, inferVars, delimVars>>

\* The page with an uploaded file: the AI chart suggestions, the manual
\* charts and the charts displayed.
NextPage ==
    \/ SetApiSettings
    \/ HandleFile
    \/ ReaderOnLoad
    \/ HandleClearFile
    \/ HandleGenerate
    \/ GenerateResolved
    \/ GenerateRejected
    \/ HandleManualCreate
    \/ ToggleChart
    \/ RemoveChart
    \/ SingleChart
    \/ ToggleSort
    \/ SetLimitResults

SpecPage == Init /\ [][NextPage]_vars

\* The page with an uploaded file under the CSV settings chosen: a manual
\* chart of it, the export of the chart, and the upload of the exported file.
NextExport ==
    \/ HandleSave
    \/ HandleFile
    \/ ReaderOnLoad
    \/ HandleClearFile
    \/ HandleManualCreate
    \/ SingleChart
    \/ ToggleSort
    \/ SetLimitResults
    \/ HandleExportCSV

SpecExport == Init /\ [][NextExport]_vars

\* The two ways a dataset is constructed: one call of parseCSV, or the sample
\* loader of the page.
NextDataset ==
    ParseCSV \/ ToggleSampleDropdown \/ HandleLoadSample \/ HandleClearFile

SpecDataset == Init /\ [][NextDataset]_vars

(***************************************************************************)
(* Claims about the datasets constructed, checked under SpecDataset.       *)
(***************************************************************************)
\* columns is aligned with headers and rowCount counts the rows.
Aligned(d) ==
    /\ Len(d.columns) = Len(d.headers)
    /\ \A i \in 1..Len(d.columns) :
          /\ d.columns[i].index = i - 1
          /\ d.columns[i].name = d.headers[i]
    /\ d.rowCount = Len(d.rows)

\* C12: in the dataset parseCSV returns and in the dataset the sample loader
\* stores, columns has the length of headers, column i (from 0) has index i
\* and the name headers[i], and rowCount is the number of rows.
C12_ColumnsAlignedWithHeaders ==
    /\ pc = "parsed" => Aligned(parsed)
    /\ csvData # <<>> => Aligned(csvData[1])

C12_Witness ==
    /\ csvData # <<>>
    /\ currentFileName = <<"Employee Data">>
    /\ Len(csvData[1].headers) = 6
    /\ csvData[1].columns[3] =
          [name |-> <<"S", "a", "l", "a", "r", "y">>, type |-> "string",
           index |-> 2]
    /\ csvData[1].rowCount = 80
    /\ Len(csvData[1].rows) = 80
    /\ csvData[1].rows[1][1] = <<"E", "M", "P", "1", "0", "0", "0">>

(***************************************************************************)
(* Claims about the export of a chart, checked under SpecExport.           *)
(***************************************************************************)
\* The exported file has been uploaded and parsed, under the configuration
\* the charted dataset had been parsed with.
Reparsed ==
    /\ download # <<>>
    /\ csvData = <<parsed>>
    /\ content = download[1].content
    /\ download[1].configuration = <<settings>>

\* The position of the header that is name, 0 when there is none.
headerIndex(d, name) ==
    LET hits == {i \in 1..Len(d.headers) : d.headers[i] = name}
    IN  IF hits = {} THEN 0 ELSE CHOOSE i \in hits : \A j \in hits : i <= j

\* The {x, y} pairs of the exported points: x as text, y as a number.
PointPairs ==
    {<<valueString(p[1].v), Num(p[Len(p)].v.n)>> :
        p \in {download[1].points[i] : i \in 1..Len(download[1].points)}}

\* The pairs the rows of d hold under the columns named kx and ky.
RowPairs(d, kx, ky) ==
    {<<cellOr(row, headerIndex(d, kx) - 1, <<>>),
       parseFloat(cellOr(row, headerIndex(d, ky) - 1, <<>>))>> :
        row \in {d.rows[r] : r \in 1..Len(d.rows)}}

\* C17: parsing the text handleExportCSV built from a non-empty processedData,
\* under the same configuration, gives a dataset that has the columns the
\* points are keyed by and whose rows hold, under them, exactly the {x, y}
\* pairs of the points (y compared as a number).
C17_ExportRoundTrip ==
    Reparsed =>
        LET kx == download[1].points[1][1].k
            ky == download[1].points[1][Len(download[1].points[1])].k
        IN  /\ headerIndex(parsed, kx) # 0
            /\ headerIndex(parsed, ky) # 0
            /\ RowPairs(parsed, kx, ky) = PointPairs

(***************************************************************************)
(* Claims about the page, checked under SpecPage.                          *)
(***************************************************************************)
\* name is a header of d up to letter case.
HeaderUpToCase(d, name) == findColumn(d.columns, name) # 0

\* The step in which an answer of generateChartSuggestions is received.
AnswerReceived == request # <<>> /\ request' = <<>> /\ now' = now + 1

\* c is among the charts cs.
Among(c, cs) == \E i \in 1..Len(cs) : cs[i] = c

\* C18: when an answer is received, every chart of it whose xAxis is a header
\* up to letter case, and whose yAxis is one too or names no column while the
\* aggregation is count, is kept as a suggestion and displayed, so that it
\* reaches processChartData.
C18_ValidatedAtAggregationOnly ==
    [][AnswerReceived =>
         \A i \in 1..Len(received') :
            LET c == received'[i]
                d == csvData[1]
            IN  (/\ HeaderUpToCase(d, c.xAxis)
                 /\ \/ HeaderUpToCase(d, c.yAxis)
                    \/ c.aggregation = "count")
                => Among(c, suggestions') /\ Among(c, generatedCharts')]_vars

\* processChartData is called in the step: a SingleChart is mounted, or its
\* sort order or its limit changes.
ProcessChartDataCalled ==
    /\ chart' # noChart
    /\ chart = noChart \/ sortOrder' # sortOrder \/ limit' # limit

\* generateDataSummary is called in the step: handleGenerate sends a request.
GenerateDataSummaryCalled == request = <<>> /\ request' # <<>>

MaxTail == 2       \* values that end a long column

LeadLengths == {0, MaxSample - 1, MaxSample}
FillLengths == {0, MaxSample - 1, MaxSample}
FillValues == { <<"1">>, <<"a">> }

\* A column of lead empty cells, then fill times the value f, then tail.
longColumn(lead, f, fill, tail) ==
    [i \in 1..lead |-> <<>>] \o [i \in 1..fill |-> f] \o tail

\* One call inferColumnType(values) on a long column.
InferLongColumn ==
    /\ pc = "idle"
    /\ \E lead \in LeadLengths, fill \in FillLengths, f \in FillValues,
          tail \in SeqsUpTo(InferValues, MaxTail) :
        LET vs == longColumn(lead, f, fill, tail)
        IN  /\ values' = vs
            /\ inferred' = inferColumnType(vs)
    /\ pc' = "inferred"
    /\ UNCHANGED <<chartVars, csvVars, delimVars, pageVars>>

NextLongColumn == InferLongColumn

SpecLongColumn == Init /\ [][NextLongColumn]_vars

(***************************************************************************)
(* Claims about the sample of inferColumnType, checked under               *)
(* SpecLongColumn.                                                         *)
(***************************************************************************)
\* The first 100 non-empty values of the column.
FirstNonEmpty ==
    LET nonEmpty == SelectSeq(values, LAMBDA v : trim(v) # <<>>)
    IN  SubSeq(nonEmpty, 1, Min(Len(nonEmpty), MaxSample))

\* The type the rules give to the values of smp.
TypeDecidedBy(smp) ==
    IF smp = <<>> THEN "string"
    ELSE IF \A i \in 1..Len(smp) : isBoolValue(smp[i]) THEN "boolean"
    ELSE IF \A i \in 1..Len(smp) : isNumberValue(smp[i]) THEN "number"
    ELSE IF \A i \in 1..Len(smp) : isDateValue(smp[i]) THEN "date"
    ELSE "string"

\* C21: the inferred type of a column is the type its first 100 non-empty
\* values decide, empty values being left out before the 100 are counted: a
\* column of 100 empty cells followed by non-empty cells has the type of
\* those cells.
C21_TypedByFirstNonEmptyValues ==
    pc = "inferred" => inferred = TypeDecidedBy(FirstNonEmpty)

(***************************************************************************)
(* processChartData on y cells written as the inferencer accepts numbers.  *)
(***************************************************************************)
MaxCellRows == 2   \* data rows of a dataset of CellDatasets

\* y cells: a plain number, one with leading white space, one with a comma,
\* one with inner white space, a number followed by a letter, and a word.
YCells ==
    { <<"5">>, <<" ", "7">>, <<"1", ",", "5">>, <<"1", " ", "2">>,
      <<"1", "a">>, <<"x">> }

\* The x value of data row i: each row is a group of its own.
cellKey(i) == [j \in 1..i |-> "A"]

CellDatasets ==
    {buildData(ChartHeaders, [i \in 1..Len(ys) |-> <<cellKey(i), ys[i]>>]) :
        ys \in SeqsUpTo(YCells, MaxCellRows) \ {<<>>}}

\* ChartDisplay is rendered with a dataset of CellDatasets as its data prop.
ChartDisplayCells ==
    /\ pc = "idle"
    /\ \E d \in CellDatasets : data' = d
    /\ pc' = "data"
    /\ UNCHANGED <<chart, sortOrder, limit, processedData>>
    /\ UNCHANGED <<csvVars, inferVars, delimVars, pageVars>>

NextCells == ChartDisplayCells \/ ProcessChartData

SpecCells == Init /\ [][NextCells]_vars

(***************************************************************************)
(* Claims about the y cells processChartData parses, checked under         *)
(* SpecCells.                                                              *)
(***************************************************************************)
\* The data rows whose y cell the inferencer's number rule accepts.
AcceptedRows == SelectSeq(data.rows, LAMBDA row : isNumberValue(row[2]))

\* The number the inferencer's normalized form of a cell denotes.
NormalizedValue(cell) == Number(cleanNumber(cell)).v

\* C22: processChartData reads a y cell as the inferencer does.  With every
\* row a group of its own, no sorting and no row cut by the limit, the
\* entries are those of the rows whose y cell the inferencer accepts as a
\* number, each with the value of the inferencer's normalized form of the
\* cell; the rows whose cell the inferencer rejects are skipped.
C22_YCellParsedAsInferencer ==
    (/\ pc = "chart"
     /\ XResolves
     /\ YResolves
     /\ chart.aggregation # "count"
     /\ sortOrder = "none"
     /\ limit >= Len(data.rows))
    => processedData =
         [i \in 1..Len(AcceptedRows) |->
            point(<<"K">>, StrVal(AcceptedRows[i][1]),
                  <<"v">>, NumVal(NormalizedValue(AcceptedRows[i][2])))]

(***************************************************************************)
(* Claims about the rows raw mode reads, checked under SpecChart.          *)
(***************************************************************************)
\* The entries of the considered rows whose y cell is a number, in dataset
\* order: those of the first n considered rows.
RECURSIVE WindowEntries(_)
WindowEntries(n) ==
    IF n = 0 THEN <<>>
    ELSE IF YNumeric(n) THEN Append(WindowEntries(n - 1), RawPoint(n))
    ELSE WindowEntries(n - 1)

\* C23: in raw mode the result is built from the first min(2 x limit,
\* rowCount) rows only.  With sort order none it is the entries of those of
\* these rows whose y cell parses, in dataset order and with the raw x value,
\* cut to limit entries; with any sort order every entry is that of one of
\* these rows.
C23_RawReadsFirstTwiceLimitRows ==
    (/\ pc = "chart"
     /\ chart.aggregation = "none"
     /\ XResolves
     /\ YResolves)
    => LET window == WindowEntries(Min(2 * limit, Len(data.rows)))
       IN  /\ sortOrder = "none" =>
                processedData = SubSeq(window, 1, Min(limit, Len(window)))
           /\ Len(processedData) <= Len(window)
           /\ \A n \in 1..Len(processedData) :
                \E m \in 1..Len(window) : processedData[n] = window[m]

(***************************************************************************)
(* Claims about the fields of the entries, checked under SpecPage.         *)
(***************************************************************************)
\* C24: when the x column of the chart resolves, every entry of the result
\* has two fields of different names: first the x column's name, holding the
\* x value (a string), then the y key, holding a number.  This is so for a
\* count chart whose yAxis is its xAxis, as handleManualCreate makes one when
\* no Y column is chosen.
C24_EntriesHaveTwoFields ==
    (chart # noChart /\ XResolves) =>
        \A n \in 1..Len(processedData) :
            LET p == processedData[n]
            IN  /\ Len(p) = 2
                /\ p[1].k = XColumn.name
                /\ p[1].v.t = "str"
                /\ p[2].k # p[1].k
                /\ p[2].v.t = "num"

(***************************************************************************)
(* HomePage.handleRunAllAnalysis (AIAnalysis.tsx): the three analyses of   *)
(* the complete analysis.  A result of the AI collaborator is recorded     *)
(* with the dataset it was asked about, in its field of.                   *)
(***************************************************************************)
Analyses == {"summary", "anomalies", "charts"}

\* The answers of the AI collaborator to the chart request of the complete
\* analysis: no chart, or one sum chart.
analysisAnswers(headers) ==
    {answer \in aiAnswers(headers) :
        /\ Len(answer) <= 1
        /\ \A i \in 1..Len(answer) : answer[i].aggregation = "sum"}

\* handleRunAllAnalysis up to its await: the button is rendered while a
\* dataset is loaded and disabled while analyzing or without an API key.
\* The three calls are started with the csvData of this render.
\* ChartDisplay is unmounted, since no chart is displayed.  The run reads
\* Date.now() once, when its chart suggestions arrive.
HandleRunAllAnalysis ==
    /\ pc \in {"idle", "page"}
    /\ csvData # <<>>
    /\ apiSettings # <<>>
    /\ ~isAnalyzingAll
    /\ now < MaxNow
    /\ isAnalyzingAll' = TRUE
    /\ analysisResults' = noResults
    /\ generatedCharts' = <<>>
    /\ analysis' = <<[csvData |-> dataAfterGenerateDataSummary(csvData[1]),
                      pending |-> Analyses]>>
    /\ csvData' = <<dataAfterGenerateDataSummary(csvData[1])>>
    /\ data' = noView.data
    /\ chart' = noView.chart
    /\ sortOrder' = noView.sortOrder
    /\ limit' = noView.limit
    /\ processedData' = noView.processedData
    /\ pc' = "page"
    /\ UNCHANGED storeVars
    /\ UNCHANGED <<csvSettings, currentFileName, showSampleDropdown,
                   apiSettings>>
    /\ UNCHANGED <<suggestVars, reading, now, download>>
    /\ UNCHANGED <<csvVars, inferVars, delimVars>>

\* generateDataSummary(config, csvSummary) resolves: the then of
\* summaryPromise.
SummaryResolved ==
    /\ pc \in {"idle", "page"}
    /\ analysis # <<>>
    /\ "summary" \in analysis[1].pending
    /\ analysisResults' =
          [analysisResults EXCEPT !.summary = <<[of |-> analysis[1].csvData]>>]
    /\ analysis' = <<[analysis[1] EXCEPT !.pending = @ \ {"summary"}]>>
    /\ pc' = "page"
    /\ UNCHANGED storeVars
    /\ UNCHANGED <<csvData, csvSettings, currentFileName, generatedCharts,
                   showSampleDropdown, apiSettings>>
    /\ UNCHANGED <<isAnalyzingAll, suggestVars, reading, now, download>>
    /\ UNCHANGED <<chartVars, csvVars, inferVars, delimVars>>

\* detectAnomalies(config, csvSummary, sampleCSV) resolves: the then of
\* anomaliesPromise.
AnomaliesResolved ==
    /\ pc \in {"idle", "page"}
    /\ analysis # <<>>
    /\ "anomalies" \in analysis[1].pending
    /\ analysisResults' =
          [analysisResults EXCEPT
              !.anomalies = <<[of |-> analysis[1].csvData]>>]
    /\ analysis' = <<[analysis[1] EXCEPT !.pending = @ \ {"anomalies"}]>>
    /\ pc' = "page"
    /\ UNCHANGED storeVars
    /\ UNCHANGED <<csvData, csvSettings, currentFileName, generatedCharts,
                   showSampleDropdown, apiSettings>>
    /\ UNCHANGED <<isAnalyzingAll, suggestVars, reading, now, download>>
    /\ UNCHANGED <<chartVars, csvVars, inferVars, delimVars>>

\* generateChartSuggestions(config, csvSummary, csvData.headers) resolves:
\* the then of chartsPromise, with the csvData of the render the run was
\* started in.  A mounted ChartSuggestions then runs its sync effect on the
\* new externalSuggestions, with the headers of the dataset now loaded, and
\* its auto-apply effect.
ChartsResolved ==
    /\ pc \in {"idle", "page"}
    /\ analysis # <<>>
    /\ "charts" \in analysis[1].pending
    /\ \E answer \in analysisAnswers(analysis[1].csvData.headers) :
        LET charts == toSuggestions(answer, now)
            validOfRun == validCharts(charts, analysis[1].csvData.headers)
            byPage == IF Len(charts) > 0 THEN validOfRun ELSE generatedCharts
        IN  /\ analysisResults' =
                  [analysisResults EXCEPT
                      !.charts = <<[of |-> analysis[1].csvData,
                                    charts |-> charts]>>]
            /\ IF csvData = <<>>
               THEN /\ generatedCharts' = byPage
                    /\ UNCHANGED <<suggestions, selectedCharts>>
               ELSE LET valid == validCharts(charts, csvData[1].headers)
                    IN  /\ suggestions' = charts
                        /\ selectedCharts' =
                              {valid[i].id : i \in 1..Len(valid)}
                        /\ generatedCharts' =
                              autoApply(suggestions', selectedCharts', byPage)
    /\ analysis' = <<[analysis[1] EXCEPT !.pending = @ \ {"charts"}]>>
    /\ now' = now + 1
    /\ LET v == IF csvData = <<>> THEN noView ELSE viewAfter(generatedCharts')
       IN  /\ data' = v.data
           /\ chart' = v.chart
           /\ sortOrder' = v.sortOrder
           /\ limit' = v.limit
           /\ processedData' = v.processedData
    /\ pc' = "page"
    /\ UNCHANGED storeVars
    /\ UNCHANGED <<csvData, csvSettings, currentFileName, showSampleDropdown,
                   apiSettings>>
    /\ UNCHANGED <<isAnalyzingAll, isLoading, error, request, received>>
    /\ UNCHANGED <<reading, download>>
    /\ UNCHANGED <<csvVars, inferVars, delimVars>>

\* The call of analysis a rejects: the catch of its promise logs the error
\* and stores nothing.
Rejected(a) ==
    /\ pc \in {"idle", "page"}
    /\ analysis # <<>>
    /\ a \in analysis[1].pending
    /\ analysis' = <<[analysis[1] EXCEPT !.pending = @ \ {a}]>>
    /\ pc' = "page"
    /\ UNCHANGED storeVars
    /\ UNCHANGED <<homeVars, isAnalyzingAll, suggestVars, reading, now,
                   download>>
    /\ UNCHANGED <<chartVars, csvVars, inferVars, delimVars>>

AnalysisRejected == \E a \in Analyses : Rejected(a)

\* handleRunAllAnalysis going on behind an await that waits for the first
\* of the three promises only.
AllSettledFirst ==
    /\ pc \in {"idle", "page"}
    /\ analysis # <<>>
    /\ analysis[1].pending # Analyses
    /\ isAnalyzingAll' = FALSE
    /\ analysis' = <<>>
    /\ pc' = "page"
    /\ UNCHANGED storeVars
    /\ UNCHANGED <<homeVars, suggestVars, reading, now, download>>
    /\ UNCHANGED <<chartVars, csvVars, inferVars, delimVars>>

\* The three promises have settled: Promise.all resolves and
\* handleRunAllAnalysis goes on behind its await.
AllSettled ==
    /\ pc \in {"idle", "page"}
    /\ analysis # <<>>
    /\ analysis[1].pending = {}
    /\ isAnalyzingAll' = FALSE
    /\ analysis' = <<>>
    /\ pc' = "page"
    /\ UNCHANGED storeVars
    /\ UNCHANGED <<homeVars, suggestVars, reading, now, download>>
    /\ UNCHANGED <<chartVars, csvVars, inferVars, delimVars>>

\* The page with its files and the complete analysis.
NextAnalysis ==
    \/ SetApiSettings
    \/ HandleFile
    \/ ReaderOnLoad
    \/ HandleClearFile
    \/ HandleRunAllAnalysis
    \/ SummaryResolved
    \/ AnomaliesResolved
    \/ ChartsResolved
    \/ AnalysisRejected
    \/ AllSettled

SpecAnalysis == Init /\ [][NextAnalysis]_vars

\* The call of analysis a resolves, or settles either way.
Resolved(a) ==
    \/ a = "summary" /\ SummaryResolved
    \/ a = "anomalies" /\ AnomaliesResolved
    \/ a = "charts" /\ ChartsResolved
Settled(a) == Resolved(a) \/ Rejected(a)

\* The complete analysis when every call of the AI collaborator settles and
\* the continuation of a settled Promise.all is run.
SpecAnalysisSettles ==
    /\ SpecAnalysis
    /\ \A a \in Analyses : WF_vars(Settled(a))
    /\ WF_vars(AllSettled)

(***************************************************************************)
(* Claims about the complete analysis, checked under SpecAnalysis.         *)
(***************************************************************************)
\* The result r, when there is one, was computed from the dataset loaded.
OfLoaded(r) == r # <<>> => (csvData # <<>> /\ r[1].of = csvData[1])

\* C25: the summary, the anomalies and the chart suggestions the page holds
\* were computed from the dataset that is loaded now, and so were the
\* generated charts and the suggestions of ChartSuggestions, which come from
\* the chart suggestions of the analysis: no result of an analysis started on
\* a dataset that has been replaced or cleared since is stored.
C25_ResultsAreOfLoadedDataset ==
    /\ OfLoaded(analysisResults.summary)
    /\ OfLoaded(analysisResults.anomalies)
    /\ OfLoaded(analysisResults.charts)
    /\ (generatedCharts # <<>> \/ suggestions # <<>>) =>
          (analysisResults.charts # <<>> /\ OfLoaded(analysisResults.charts))

\* A step of the complete analysis from its start to the clearing of its
\* flag.
RunStep ==
    /\ (~isAnalyzingAll /\ isAnalyzingAll') =>
          (/\ analysis' # <<>>
           /\ analysis'[1].pending = Analyses
           /\ analysisResults' = noResults)
    /\ (isAnalyzingAll /\ ~isAnalyzingAll') =>
          (analysis # <<>> /\ analysis[1].pending = {})
    /\ \A a \in Analyses :
          Resolved(a) =>
              (/\ analysisResults'[a] # <<>>
               /\ analysisResults'[a][1].of = analysis[1].csvData
               /\ \A b \in Analyses \ {a} :
                     analysisResults'[b] = analysisResults[b])

\* C26: Run Complete Analysis sets isAnalyzingAll and starts the three
\* analyses together; each result is stored in the step its analysis
\* completes in, beside the results stored before; the flag is cleared only
\* once all three have settled.  While an analysis is pending it can
\* complete and be stored, whether the others failed or not, and when every
\* call settles the flag is eventually cleared.
C26_CompleteAnalysisSettles ==
    /\ [][RunStep]_vars
    /\ [](\A a \in Analyses :
            (analysis # <<>> /\ a \in analysis[1].pending) =>
                (isAnalyzingAll /\ ENABLED Resolved(a)))
    /\ (isAnalyzingAll ~> ~isAnalyzingAll)

\* The run is over with its summary call failed: the anomalies and the chart
\* suggestions of the loaded dataset are stored and the flag is cleared.
C26_Witness ==
    /\ ~isAnalyzingAll
    /\ analysis = <<>>
    /\ csvData # <<>>
    /\ analysisResults.summary = <<>>
    /\ analysisResults.anomalies = <<[of |-> csvData[1]]>>
    /\ analysisResults.charts # <<>>
    /\ analysisResults.charts[1].of = csvData[1]
    /\ Len(generatedCharts) = 1

(***************************************************************************)
(* Claims about the charts ChartSuggestions hands to the page, checked     *)
(* under SpecPage.                                                         *)
(***************************************************************************)
\* The suggestions that are selected, in suggestion order.
SelectedSuggestions ==
    SelectSeq(suggestions, LAMBDA c : c.id \in selectedCharts)

\* C27: after every action of ChartSuggestions and its effects, the charts
\* handed to the page through onChartsGenerated, which the page holds as
\* generatedCharts, are exactly the suggestions now selected, in suggestion
\* order.
C27_GeneratedChartsAreSelected == generatedCharts = SelectedSuggestions

(***************************************************************************)
(* chat-store.ts.  A ChatStore object lives in heap under its reference;   *)
(* store is the reference the module variable holds.  Objects no one holds *)
(* are dropped from heap.                                                  *)
(***************************************************************************)
MaxVersion == 3    \* updates of the chat store in one behaviour

Tabs == {"summary", "anomalies", "custom"}
Prompts == { <<>>, <<"p">> }
Responses == { <<>>, <<"r">> }
Chunks == { <<"c">> }
Messages == { [prompt |-> <<"p">>, response |-> <<"r">>] }

\* A reference no object of hp has.
fresh(hp) == 1 + CHOOSE r \in DOMAIN hp : \A q \in DOMAIN hp : q <= r

\* hp without the objects that are not among held.
collect(hp, held) == [r \in (DOMAIN hp) \cap held |-> hp[r]]

\* { ...obj, ...updates, version: obj.version + 1 }
spread(obj, updates) ==
    [(updates @@ obj) EXCEPT !.version = obj.version + 1]

\* updateStore writing the updates into the object store refers to.
updateStoreInPlace(st, hp, updates) ==
    [store |-> st, heap |-> [hp EXCEPT ![st] = spread(hp[st], updates)]]

\* The assignment of updateStore: store = { ...store, ...updates, version },
\* a new object.  The result is the reference store holds and the heap.
updateStore(st, hp, updates) ==
    LET r == fresh(hp)
    IN  [store |-> r, heap |-> (r :> spread(hp[st], updates)) @@ hp]

\* subscribers.forEach without its try and catch: the callbacks called when
\* those of throwing throw.
RECURSIVE forEachUncaught(_, _)
forEachUncaught(subs, throwing) ==
    IF subs = <<>> THEN {}
    ELSE IF Head(subs) \in throwing THEN {Head(subs)}
    ELSE {Head(subs)} \cup forEachUncaught(Tail(subs), throwing)

\* subscribers.forEach((callback) => { try { callback() } catch ... }): the
\* callbacks called when those of throwing throw.
forEach(subs, throwing) == {subs[i] : i \in 1..Len(subs)}

\* seen after the callbacks of called were called with the store at
\* version v.
seenAfter(called, v) ==
    [c \in Callbacks |-> IF c \in called THEN v ELSE seen[c]]

\* The references someone holds once store holds st.
live(st, snap) == {st} \cup {snap[i].ref : i \in 1..Len(snap)}

\* updateStore(updates, sync), called by the exported function name with
\* args: the assignment, then notifySubscribersSync or notifySubscribers.
UpdateStore(name, args, updates, sync) ==
    /\ pc \in {"idle", "store"}
    /\ heap[store].version < MaxVersion
    /\ LET after == updateStore(store, heap, updates)
       IN  /\ store' = after.store
           /\ heap' = collect(after.heap, live(after.store, snapshot))
           /\ IF sync
              THEN /\ \E throwing \in SUBSET Callbacks :
                        seen' = seenAfter(forEach(subscribers, throwing),
                                          after.heap[after.store].version)
                   /\ UNCHANGED microtasks
              ELSE /\ microtasks' = microtasks + 1
                   /\ UNCHANGED seen
    /\ call' = <<[name |-> name, args |-> args]>>
    /\ pc' = "store"
    /\ UNCHANGED <<subscribers, snapshot>>
    /\ UNCHANGED <<chartVars, csvVars, inferVars, delimVars>>
    /\ UNCHANGED <<homeVars, suggestVars, reading, now, download, analysisVars>>

AddChatMessage ==
    \E message \in Messages :
        UpdateStore("addChatMessage", <<message>>,
                    [history |-> Append(heap[store].history, message),
                     streamingResponse |-> <<>>,
                     isLoading |-> FALSE,
                     pendingPrompt |-> <<>>],
                    FALSE)

SetStreamingResponse ==
    \E response \in Responses :
        UpdateStore("setStreamingResponse", <<response>>,
                    [streamingResponse |-> response], TRUE)

AppendStreamingResponse ==
    \E chunk \in Chunks :
        UpdateStore("appendStreamingResponse", <<chunk>>,
                    [streamingResponse |->
                        heap[store].streamingResponse \o chunk],
                    TRUE)

SetCurrentPrompt ==
    \E prompt \in Prompts :
        UpdateStore("setCurrentPrompt", <<prompt>>,
                    [currentPrompt |-> prompt], FALSE)

\* The updates of setLoadingState with the pending prompt kept as given.
loadingUpdatesAsGiven(isLoadingArg, pendingPrompt) ==
    [isLoading |-> isLoadingArg, pendingPrompt |-> pendingPrompt]

\* { isLoading, pendingPrompt: isLoading ? pendingPrompt : "" }
loadingUpdates(isLoadingArg, pendingPrompt) ==
    [isLoading |-> isLoadingArg,
     pendingPrompt |-> IF isLoadingArg THEN pendingPrompt ELSE <<>>]

SetLoadingState ==
    \E isLoadingArg \in BOOLEAN, pendingPrompt \in Prompts :
        UpdateStore("setLoadingState", <<isLoadingArg, pendingPrompt>>,
                    loadingUpdates(isLoadingArg, pendingPrompt), TRUE)

\* clearChatStore: store = { ...initialState, version: store.version + 1 },
\* then notifySubscribers.
ClearChatStore ==
    /\ pc \in {"idle", "store"}
    /\ heap[store].version < MaxVersion
    /\ LET r == fresh(heap)
           cleared == [initialState EXCEPT
                          !.version = heap[store].version + 1]
       IN  /\ store' = r
           /\ heap' = collect((r :> cleared) @@ heap, live(r, snapshot))
    /\ microtasks' = microtasks + 1
    /\ call' = <<[name |-> "clearChatStore", args |-> <<>>]>>
    /\ pc' = "store"
    /\ UNCHANGED <<subscribers, seen, snapshot>>
    /\ UNCHANGED <<chartVars, csvVars, inferVars, delimVars>>
    /\ UNCHANGED <<homeVars, suggestVars, reading, now, download, analysisVars>>

\* setActiveTabInStore(tab): nothing when tab is the active tab.
SetActiveTabInStore ==
    \E tab \in Tabs :
        IF heap[store].activeTab # tab
        THEN UpdateStore("setActiveTabInStore", <<tab>>,
                         [activeTab |-> tab], TRUE)
        ELSE /\ pc \in {"idle", "store"}
             /\ call' = <<[name |-> "setActiveTabInStore", args |-> <<tab>>]>>
             /\ pc' = "store"
             /\ UNCHANGED <<heap, store, subscribers, microtasks, seen,
                            snapshot>>
             /\ UNCHANGED <<chartVars, csvVars, inferVars, delimVars>>
             /\ UNCHANGED <<homeVars, suggestVars, reading, now, download,
                            analysisVars>>

\* subscribeToChatStore(callback): the callback is added and called at once.
SubscribeToChatStore ==
    /\ pc \in {"idle", "store"}
    /\ \E callback \in Callbacks :
        /\ subscribers' =
              IF \E i \in 1..Len(subscribers) : subscribers[i] = callback
              THEN subscribers
              ELSE Append(subscribers, callback)
        /\ seen' = seenAfter({callback}, heap[store].version)
        /\ call' = <<[name |-> "subscribeToChatStore", args |-> <<callback>>]>>
    /\ pc' = "store"
    /\ UNCHANGED <<heap, store, microtasks, snapshot>>
    /\ UNCHANGED <<chartVars, csvVars, inferVars, delimVars>>
    /\ UNCHANGED <<homeVars, suggestVars, reading, now, download, analysisVars>>

\* The function subscribeToChatStore returned for a callback:
\* subscribers.delete(callback).  The component of the callback is gone, and
\* what it had read with it.
Unsubscribe ==
    /\ pc \in {"idle", "store"}
    /\ \E i \in 1..Len(subscribers) :
        /\ subscribers' = SelectSeq(subscribers,
                                    LAMBDA c : c # subscribers[i])
        /\ seen' = [seen EXCEPT ![subscribers[i]] = NotCalled]
        /\ call' = <<[name |-> "unsubscribe", args |-> <<subscribers[i]>>]>>
    /\ pc' = "store"
    /\ UNCHANGED <<heap, store, microtasks, snapshot>>
    /\ UNCHANGED <<chartVars, csvVars, inferVars, delimVars>>
    /\ UNCHANGED <<homeVars, suggestVars, reading, now, download, analysisVars>>

\* The microtask notifySubscribers queued: every callback subscribed now is
\* called.
RunMicrotask ==
    /\ pc \in {"idle", "store"}
    /\ microtasks > 0
    /\ microtasks' = microtasks - 1
    /\ \E throwing \in SUBSET Callbacks :
        seen' = seenAfter(forEach(subscribers, throwing), heap[store].version)
    /\ pc' = "store"
    /\ UNCHANGED <<heap, store, subscribers, snapshot, call>>
    /\ UNCHANGED <<chartVars, csvVars, inferVars, delimVars>>
    /\ UNCHANGED <<homeVars, suggestVars, reading, now, download, analysisVars>>

\* getChatStore(), by a caller that keeps what it is returned: the reference
\* and, beside it, the fields the object has at the time.
GetChatStore ==
    /\ pc \in {"idle", "store"}
    /\ snapshot' = <<[ref |-> store, value |-> heap[store]]>>
    /\ heap' = collect(heap, live(store, snapshot'))
    /\ call' = <<[name |-> "getChatStore", args |-> <<>>]>>
    /\ pc' = "store"
    /\ UNCHANGED <<store, subscribers, microtasks, seen>>
    /\ UNCHANGED <<chartVars, csvVars, inferVars, delimVars>>
    /\ UNCHANGED <<homeVars, suggestVars, reading, now, download, analysisVars>>

NextStore ==
    \/ AddChatMessage
    \/ SetStreamingResponse
    \/ AppendStreamingResponse
    \/ SetCurrentPrompt
    \/ SetLoadingState
    \/ ClearChatStore
    \/ SetActiveTabInStore
    \/ SubscribeToChatStore
    \/ Unsubscribe
    \/ RunMicrotask
    \/ GetChatStore

SpecStore == Init /\ [][NextStore]_vars

\* The chat store when the microtasks queued are run.
SpecStoreDelivers == SpecStore /\ WF_vars(RunMicrotask)

(***************************************************************************)
(* Claims about the chat store, checked under SpecStore and                *)
(* SpecStoreDelivers.                                                      *)
(***************************************************************************)
\* A step of an exported function that updates the store.
StoreUpdate ==
    \/ AddChatMessage
    \/ SetStreamingResponse
    \/ AppendStreamingResponse
    \/ SetCurrentPrompt
    \/ SetLoadingState
    \/ ClearChatStore
    \/ (SetActiveTabInStore /\ call'[1].args[1] # heap[store].activeTab)

\* A step of setActiveTabInStore with the active tab.
SameTab ==
    /\ SetActiveTabInStore
    /\ call'[1].args[1] = heap[store].activeTab

\* A step of the chat store as its callers see it through getChatStore.
VersionedStep ==
    /\ StoreUpdate =>
          (/\ store' \notin DOMAIN heap
           /\ heap'[store'].version = heap[store].version + 1)
    /\ ClearChatStore =>
          (/\ \A f \in DOMAIN initialState \ {"version"} :
                 heap'[store'][f] = initialState[f]
           /\ heap'[store'].version >= heap[store].version)
    /\ SameTab =>
          (/\ store' = store
           /\ heap'[store'] = heap[store]
           /\ seen' = seen
           /\ microtasks' = microtasks)
    /\ \A r \in DOMAIN heap \cap DOMAIN heap' : heap'[r] = heap[r]

\* C28: every update of the chat store puts a new object in store, whose
\* version is the version before plus 1; clearChatStore gives every other
\* field its initial value and does not lower the version;
\* setActiveTabInStore with the active tab leaves the object and its fields
\* as they are, calls no subscriber and queues no notification; an object
\* getChatStore returned keeps the fields it had when it was returned.
C28_UpdatesImmutableAndVersioned ==
    /\ [][VersionedStep]_vars
    /\ [](snapshot # <<>> =>
            (/\ snapshot[1].ref \in DOMAIN heap
             /\ heap[snapshot[1].ref] = snapshot[1].value))

\* A caller holds the object it was returned when the store had a message;
\* the store was cleared since: it is another object, one version later.
C28_Witness ==
    /\ snapshot # <<>>
    /\ snapshot[1].value.history # <<>>
    /\ snapshot[1].ref # store
    /\ call = <<[name |-> "clearChatStore", args |-> <<>>]>>
    /\ heap[store].history = <<>>
    /\ heap[store].version = snapshot[1].value.version + 1

\* A step of an exported function that notifies synchronously.
SyncUpdate ==
    \/ SetStreamingResponse
    \/ AppendStreamingResponse
    \/ SetLoadingState
    \/ (SetActiveTabInStore /\ call'[1].args[1] # heap[store].activeTab)

\* A step of an exported function that notifies in a microtask.
AsyncUpdate ==
    \/ AddChatMessage
    \/ SetCurrentPrompt
    \/ ClearChatStore

subscribed(c) == \E i \in 1..Len(subscribers) : subscribers[i] = c

\* A step of the chat store as its subscribers see it.
NotifiedStep ==
    /\ SyncUpdate =>
          \A c \in Callbacks :
              subscribed(c) => seen'[c] = heap'[store'].version
    /\ AsyncUpdate =>
          (seen' = seen /\ microtasks' = microtasks + 1)
    /\ RunMicrotask =>
          \A c \in Callbacks :
              subscribed(c) => seen'[c] = heap[store].version

\* C29: a synchronous update has called every subscribed callback, thrower
\* or not, when it returns, and each read the updated store; the other
\* updates call none before returning and queue a microtask, which calls
\* every callback subscribed when it runs; a subscribed callback that has not
\* read the current version has a microtask queued that will call it; and
\* after an update to version v every callback is eventually unsubscribed or
\* called with a store of version v or later.
C29_NoUpdateLost ==
    /\ [][NotifiedStep]_vars
    /\ [](\A c \in Callbacks :
            subscribed(c) =>
                (seen[c] = heap[store].version \/ microtasks > 0))
    /\ \A c \in Callbacks, v \in 1..MaxVersion :
          (subscribed(c) /\ heap[store].version = v)
              ~> (~subscribed(c) \/ seen[c] >= v)

\* Both callbacks are subscribed, the store was cleared after other updates
\* and the microtasks have run: each callback read the cleared store.
C29_Witness ==
    /\ Len(subscribers) = 2
    /\ call = <<[name |-> "clearChatStore", args |-> <<>>]>>
    /\ heap[store].version >= 2
    /\ microtasks = 0
    /\ \A c \in Callbacks : seen[c] = heap[store].version

\* C30: whenever the store is not loading its pending prompt is empty.
C30_NoPendingPromptUnlessLoading ==
    ~heap[store].isLoading => heap[store].pendingPrompt = <<>>

\* setLoadingState(false, "p") was the call after another update: the store
\* is not loading and has no pending prompt.
C30_Witness ==
    /\ call = <<[name |-> "setLoadingState", args |-> <<FALSE, <<"p">>>>]>>
    /\ heap[store].version >= 2
    /\ ~heap[store].isLoading
    /\ heap[store].pendingPrompt = <<>>

====
